---- MODULE Spec2Model ----
(***************************************************************************)
(* A model of entity-system-rs: the entity identity allocator, the dense   *)
(* component storage, the component registry (EntityManager), the deferred *)
(* event dispatcher and the system scheduler (SystemManager).              *)
(***************************************************************************)
EXTENDS Integers, Sequences, FiniteSets, TLC

(***************************************************************************)
(* Bounds of the model.                                                    *)
(***************************************************************************)
\* largest value EntityAllocator.next may reach (identities are 0..MaxId-1)
MaxId == 3
\* longest recorded history of allocator calls
MaxOps == 7
\* largest value next may reach in the registry (EntityManager) runs
MaxEntities == 2
\* component values are 0..MaxVal; 0 is the type's Default::default()
MaxVal == 1
\* most connect/disconnect/push calls made on one dispatcher
MaxActions == 4
\* the same, in the runs of the scheduler
MaxSysActions == 2
\* the clock reads 0..MaxTime
MaxTime == 1
\* most add_system calls
MaxSystems == 2
\* most filters in a Query
MaxFilters == 2
\* most Ref / RefMut of components held at once
MaxViews == 2
\* longest recorded history of calls on one storage
MaxStoreOps == 4

VARIABLES
    next,       \* EntityAllocator.next.id
    free,       \* EntityAllocator.free (HashSet<Entity>)
    hist,       \* the alloc/free calls made so far, with what alloc returned
                \* (in the runs of one storage: the calls made on it)
    storages,   \* EntityManager.components: one BasicVecStorage per type
    views,      \* the Ref / RefMut of components the caller now holds, as
                \* <<type, entity, "ref" or "mut">>
    pendings,   \* EventDispatcher.pendings: the queued closures
    adapters,   \* EventDispatcher.adapters: each Adapter's handlers
    connections,\* the Connection objects created, as <<handler, event type>>
    owned,      \* the handler objects some Rc outside the dispatcher holds
    borrowed,   \* the Rc<RefCell<..>> objects now mutably borrowed
    dpc,        \* where dispatch() is: "idle" (not running), "loop",
                \* "invoke" (in Adapter::invoke), "handler" (in on_event)
    cur,        \* the event being delivered and the position in handlers
    panicked,   \* a panic (BorrowMutError) has unwound the program
    submitted,  \* every action ever queued, in order: an action's id is
                \* its position here
    trace,      \* what dispatch() did so far, in order
    systems,    \* SystemManager.systems
    refresh,    \* SystemManager.refresh
    names,      \* SystemManager.names: position + 1 of a name, 0 if absent
    time,       \* the clock Instant::now() reads
    spc,        \* where update() is: "idle" (not running), "visit" (at the
                \* head of its loop), "running" (in System::run), "drain"
                \* (in event_dispatcher.dispatch())
    sidx,       \* update(): the position (from 1) of the system visited
    now,        \* update(): its local now
    ret,        \* update(): its local ret; after the return, the result
    local       \* update(): its local refresh, the state read at the visit

allocVars == <<next, free, hist>>
emVars == <<storages, views>>
dispVars == <<pendings, adapters, connections, owned, borrowed, dpc, cur,
              panicked, submitted, trace>>
sysVars == <<systems, refresh, names, time, spc, sidx, now, ret, local>>
vars == <<next, free, hist, storages, views, pendings, adapters, connections, owned,
          borrowed, dpc, cur, panicked, submitted, trace, systems, refresh,
          names, time, spc, sidx, now, ret, local>>
\* what the calls on the dispatcher leave alone
notDisp == <<allocVars, emVars, sysVars>>

(***************************************************************************)
(* EntityAllocator (src/src/entity.rs)                                     *)
(***************************************************************************)

\* EntityAllocator::new
AllocatorNew ==
    /\ next = 0
    /\ free = {}

AllocChoicesFresh(nx, fr) == {nx}

\* the identities alloc() may return: HashSet iteration order is arbitrary,
\* so free.iter().next() is any member of free; with free empty it is next
AllocChoices(nx, fr) == IF fr # {} THEN fr ELSE {nx}

AllocKeepsFree(fr, value) == fr

\* free after alloc() returned value: self.free.remove(&value)
AllocRemove(fr, value) == fr \ {value}

AllocNextAlways(nx, fr) == nx + 1

\* next after alloc(): incremented only on the None arm
AllocNext(nx, fr) == IF fr # {} THEN nx ELSE nx + 1

\* EntityAllocator::alloc, returning value
Alloc(value) ==
    /\ value \in AllocChoices(next, free)
    /\ next' = AllocNext(next, free)
    /\ free' = AllocRemove(free, value)

\* EntityAllocator::free
Free(entity) ==
    /\ free' = free \cup {entity}
    /\ UNCHANGED next

\* identities alloc() has returned in the history h
Issued(h) == {h[k].e : k \in {j \in 1..Len(h) : h[j].op = "alloc"}}

AllocatorAlloc ==
    /\ Len(hist) < MaxOps
    /\ AllocNext(next, free) <= MaxId
    /\ \E value \in 0..MaxId :
        /\ Alloc(value)
        /\ hist' = Append(hist, [op |-> "alloc", e |-> value])
    /\ UNCHANGED <<emVars, dispVars, sysVars>>

\* free(e) for an identity alloc() returned before (freeing it twice included)
AllocatorFree ==
    /\ Len(hist) < MaxOps
    /\ \E entity \in Issued(hist) :
        /\ Free(entity)
        /\ hist' = Append(hist, [op |-> "free", e |-> entity])
    /\ UNCHANGED <<emVars, dispVars, sysVars>>

\* what Iterator::next returns at the end of the iteration
None == -1

\* EntityAllocatorIterator::next_free_entity: the value of current after
\* the while loop
RECURSIVE NextFreeEntity(_, _, _)
NextFreeEntity(current, nx, fr) ==
    IF current \in fr
    THEN IF current + 1 = nx
         THEN current + 1
         ELSE NextFreeEntity(current + 1, nx, fr)
    ELSE current

\* EntityAllocatorIterator::new: the first value of current
IteratorNew(nx, fr) == NextFreeEntity(0, nx, fr)

IteratorNextNoSkip(current, nx, fr) ==
    IF current = nx
    THEN [item |-> None, current |-> current]
    ELSE [item |-> current, current |-> current + 1]

\* Iterator::next for EntityAllocatorIterator: the item returned and the
\* value of current afterwards
IteratorNext(current, nx, fr) ==
    IF current = nx
    THEN [item |-> None, current |-> current]
    ELSE [item |-> current, current |-> NextFreeEntity(current + 1, nx, fr)]

\* the items of at most fuel calls of next() from current, and whether the
\* last of them returned None
RECURSIVE IteratorCollect(_, _, _, _)
IteratorCollect(current, nx, fr, fuel) ==
    IF fuel = 0
    THEN [items |-> <<>>, ended |-> FALSE]
    ELSE LET r == IteratorNext(current, nx, fr)
         IN  IF r.item = None
             THEN [items |-> <<>>, ended |-> TRUE]
             ELSE LET rest == IteratorCollect(r.current, nx, fr, fuel - 1)
                  IN  [items |-> <<r.item>> \o rest.items,
                       ended |-> rest.ended]

\* EntityAllocator::iter (and EntityManager::iter_all), collected; no
\* iteration over identities below MaxId needs more calls of next()
Iter(nx, fr) == IteratorCollect(IteratorNew(nx, fr), nx, fr, MaxId + 2)

(***************************************************************************)
(* BasicVecStorage (src/src/storage.rs); position pos of the Vecs is       *)
(* element pos + 1 of the sequences                                        *)
(***************************************************************************)

Components == {"Position", "Velocity"}
Values == 0..MaxVal
\* Default::default() of a component
DefaultValue == 0

\* BasicVecStorage::default
StorageNew == [datas |-> <<>>, alloc |-> <<>>]

\* Vec::resize_with(n, Default::default), called only to grow
ResizeWith(v, n, d) == v \o [k \in 1..(n - Len(v)) |-> d]

StorageAllocFillsTrue(st, pos) ==
    IF pos >= Len(st.datas)
    THEN [datas |-> ResizeWith(st.datas, pos + 1, DefaultValue),
          alloc |-> ResizeWith(st.alloc, pos + 1, TRUE)]
    ELSE [st EXCEPT !.alloc[pos + 1] = TRUE]

StorageFreeGrows(st, pos) ==
    IF pos >= Len(st.datas)
    THEN [datas |-> ResizeWith(st.datas, pos + 1, DefaultValue),
          alloc |-> ResizeWith(st.alloc, pos + 1, FALSE)]
    ELSE [st EXCEPT !.datas[pos + 1] = DefaultValue, !.alloc[pos + 1] = FALSE]

StorageFreeKeepsData(st, pos) ==
    IF pos < Len(st.datas) /\ st.alloc[pos + 1]
    THEN [st EXCEPT !.alloc[pos + 1] = FALSE]
    ELSE st

StorageAllocResets(st, pos) ==
    LET grown == IF pos >= Len(st.datas)
                 THEN [datas |-> ResizeWith(st.datas, pos + 1, DefaultValue),
                       alloc |-> ResizeWith(st.alloc, pos + 1, FALSE)]
                 ELSE st
    IN  [grown EXCEPT !.alloc[pos + 1] = TRUE, !.datas[pos + 1] = DefaultValue]

\* BasicVecStorage::alloc
StorageAlloc(st, pos) ==
    LET grown == IF pos >= Len(st.datas)
                 THEN [datas |-> ResizeWith(st.datas, pos + 1, DefaultValue),
                       alloc |-> ResizeWith(st.alloc, pos + 1, FALSE)]
                 ELSE st
    IN  [grown EXCEPT !.alloc[pos + 1] = TRUE]

\* BasicVecStorage::has
StorageHas(st, pos) == pos < Len(st.datas) /\ st.alloc[pos + 1]

\* BasicVecStorage::free
StorageFree(st, pos) ==
    IF pos < Len(st.datas) /\ st.alloc[pos + 1]
    THEN [st EXCEPT !.datas[pos + 1] = DefaultValue, !.alloc[pos + 1] = FALSE]
    ELSE st

StorageGetPanicsBeyondLength(st, pos) == pos >= Len(st.datas)

\* BasicVecStorage::get and get_mut: the else branch, panic!
StorageGetPanics(st, pos) == ~(pos < Len(st.datas) /\ st.alloc[pos + 1])

\* BasicVecStorage::get, where it does not panic
StorageGet(st, pos) == st.datas[pos + 1]

\* *storage.get_mut(entity) = v, where get_mut does not panic
StorageSet(st, pos, v) == [st EXCEPT !.datas[pos + 1] = v]

\* one BasicVecStorage<Position> used through the Storage trait, with the
\* calls made on it recorded in hist
TheStorage == storages["Position"]

\* Storage::alloc(entity)
StoreAlloc(entity) ==
    /\ ~panicked
    /\ Len(hist) < MaxStoreOps
    /\ storages' = [storages EXCEPT !["Position"] = StorageAlloc(@, entity)]
    /\ hist' = Append(hist, [op |-> "alloc", e |-> entity, v |-> DefaultValue])
    /\ UNCHANGED <<next, free, views, dispVars, sysVars>>

\* Storage::free(entity)
StoreFree(entity) ==
    /\ ~panicked
    /\ Len(hist) < MaxStoreOps
    /\ storages' = [storages EXCEPT !["Position"] = StorageFree(@, entity)]
    /\ hist' = Append(hist, [op |-> "free", e |-> entity, v |-> DefaultValue])
    /\ UNCHANGED <<next, free, views, dispVars, sysVars>>

\* *storage.get_mut(entity) = v; get_mut panics when has(entity) is false
StoreWrite(entity, v) ==
    /\ ~panicked
    /\ Len(hist) < MaxStoreOps
    /\ IF ~StorageGetPanics(TheStorage, entity)
       THEN /\ storages' = [storages EXCEPT
                                !["Position"] = StorageSet(@, entity, v)]
            /\ hist' = Append(hist, [op |-> "write", e |-> entity, v |-> v])
            /\ UNCHANGED panicked
       ELSE /\ panicked' = TRUE
            /\ UNCHANGED <<storages, hist>>
    /\ UNCHANGED <<next, free, views, systems, refresh, names, time, spc, sidx,
                   now, ret, local, pendings, adapters, connections, owned,
                   borrowed, dpc, cur, submitted, trace>>

(***************************************************************************)
(* EntityManager (src/src/entity_manager.rs)                               *)
(***************************************************************************)

\* the Entity values callers pass to the registry
Entities == 0..(MaxEntities - 1)

\* the closures passed to add_component_with and update_component_with:
\* one that stores the largest value, one that adds one (wrapping) and one
\* that leaves the value as it is
Mutators ==
    {[k |-> "set", v |-> MaxVal], [k |-> "inc", v |-> DefaultValue],
     [k |-> "keep", v |-> DefaultValue]}

\* f(&mut x): the value of x afterwards
Apply(f, x) ==
    CASE f.k = "set" -> f.v
      [] f.k = "inc" -> (x + 1) % (MaxVal + 1)
      [] f.k = "keep" -> x

ComponentsFreeFirstOnly(sts, entity) ==
    [sts EXCEPT !["Position"] = StorageFree(sts["Position"], entity)]

ComponentsFreeNone(sts, entity) == sts

\* EntityManagerComponent::free as create_entity_manager_component! writes
\* it: free(entity) on every storage
ComponentsFree(sts, entity) ==
    [T \in Components |-> StorageFree(sts[T], entity)]

\* EntityManager::has_component::<T>
HasComponent(T, entity) == StorageHas(storages[T], entity)

\* the RefCell of T's storage is borrowed (Ref or RefMut) by a view
Borrowed(T) == \E w \in views : w[1] = T

\* the RefCell of T's storage is mutably borrowed by a view
MutBorrowed(T) == \E w \in views : w[1] = T /\ w[3] = "mut"

BorrowSucceedsUnlessAnyView(T) == views = {}

\* get_storage: RefCell::borrow() succeeds
BorrowSucceeds(T) == ~MutBorrowed(T)

\* get_storage_mut: RefCell::borrow_mut() succeeds
BorrowMutSucceeds(T) == ~Borrowed(T)

\* a panic (of a RefCell borrow, or of Storage::get / get_mut): nothing is
\* changed, the temporaries are dropped by the unwinding
Fault ==
    /\ panicked' = TRUE
    /\ UNCHANGED <<allocVars, emVars, sysVars, pendings, adapters, connections,
                   owned, borrowed, dpc, cur, submitted, trace>>

\* EntityManager::new
EntityManagerNew ==
    /\ AllocatorNew
    /\ storages = [T \in Components |-> StorageNew]
    /\ views = {}

\* EntityManager::create_entity, returning value; a &mut self method: the
\* compiler admits no call while a Ref or RefMut of a component is held
CreateEntity(value) ==
    /\ ~panicked
    /\ views = {}
    /\ Alloc(value)
    /\ UNCHANGED <<storages, views, hist, dispVars, sysVars>>

\* EntityManager::delete_entity (a &mut self method)
DeleteEntity(entity) ==
    /\ ~panicked
    /\ views = {}
    /\ Free(entity)
    /\ storages' = ComponentsFree(storages, entity)
    /\ UNCHANGED <<views, hist, dispVars, sysVars>>

\* EntityManager::add_component::<T>
AddComponent(T, entity) ==
    /\ ~panicked
    /\ IF BorrowMutSucceeds(T)
       THEN /\ storages' = [storages EXCEPT ![T] = StorageAlloc(@, entity)]
            /\ UNCHANGED <<next, free, views, hist, dispVars, sysVars>>
       ELSE Fault

\* an add_component_with that applies f to a fresh default value
AddComponentWithFresh(T, entity, f) ==
    /\ ~panicked
    /\ IF BorrowMutSucceeds(T)
       THEN /\ storages' =
                [storages EXCEPT ![T] =
                    StorageSet(StorageAlloc(@, entity), entity,
                               Apply(f, DefaultValue))]
            /\ UNCHANGED <<next, free, views, hist, dispVars, sysVars>>
       ELSE Fault

\* EntityManager::add_component_with::<T, F>: alloc, then
\* update_component_with (the slot is allocated, so get_mut does not panic)
AddComponentWith(T, entity, f) ==
    /\ ~panicked
    /\ IF BorrowMutSucceeds(T)
       THEN /\ storages' =
                [storages EXCEPT ![T] =
                    LET st == StorageAlloc(@, entity)
                    IN  StorageSet(st, entity, Apply(f, StorageGet(st, entity)))]
            /\ UNCHANGED <<next, free, views, hist, dispVars, sysVars>>
       ELSE Fault

\* EntityManager::remove_component::<T>
RemoveComponent(T, entity) ==
    /\ ~panicked
    /\ IF BorrowMutSucceeds(T)
       THEN /\ storages' = [storages EXCEPT ![T] = StorageFree(@, entity)]
            /\ UNCHANGED <<next, free, views, hist, dispVars, sysVars>>
       ELSE Fault

\* EntityManager::has_component::<T>, called
HasComponentCall(T, entity) ==
    /\ ~panicked
    /\ IF BorrowSucceeds(T) THEN UNCHANGED vars ELSE Fault

\* let x = *entity_manager.get_component::<T>(entity): the Ref is dropped at
\* the end of the statement; Storage::get panics when has(entity) is false
ReadComponent(T, entity) ==
    /\ ~panicked
    /\ IF BorrowSucceeds(T) /\ ~StorageGetPanics(storages[T], entity)
       THEN UNCHANGED vars
       ELSE Fault

\* *entity_manager.get_component_mut::<T>(entity) = v; Storage::get_mut
\* panics when has(entity) is false
WriteComponent(T, entity, v) ==
    /\ ~panicked
    /\ IF BorrowMutSucceeds(T) /\ ~StorageGetPanics(storages[T], entity)
       THEN /\ storages' = [storages EXCEPT ![T] = StorageSet(@, entity, v)]
            /\ UNCHANGED <<next, free, views, hist, dispVars, sysVars>>
       ELSE Fault

\* EntityManager::update_component_with::<T, F> with a closure that makes no
\* call on the registry: f is called on what get_component_mut returns
UpdateComponentWith(T, entity, f) ==
    /\ ~panicked
    /\ IF BorrowMutSucceeds(T) /\ ~StorageGetPanics(storages[T], entity)
       THEN /\ storages' =
                [storages EXCEPT ![T] =
                    StorageSet(@, entity, Apply(f, StorageGet(@, entity)))]
            /\ UNCHANGED <<next, free, views, hist, dispVars, sysVars>>
       ELSE Fault

\* let r = entity_manager.get_component::<T>(entity), r kept by the caller
GetComponent(T, entity) ==
    /\ ~panicked
    /\ IF BorrowSucceeds(T) /\ ~StorageGetPanics(storages[T], entity)
       THEN /\ views' = views \cup {<<T, entity, "ref">>}
            /\ UNCHANGED <<next, free, storages, hist, dispVars, sysVars>>
       ELSE Fault

\* let r = entity_manager.get_component_mut::<T>(entity), r kept by the
\* caller; also the entry of update_component_with, up to the call of f
GetComponentMut(T, entity) ==
    /\ ~panicked
    /\ IF BorrowMutSucceeds(T) /\ ~StorageGetPanics(storages[T], entity)
       THEN /\ views' = views \cup {<<T, entity, "mut">>}
            /\ UNCHANGED <<next, free, storages, hist, dispVars, sysVars>>
       ELSE Fault

\* drop(r) of a Ref or RefMut the caller holds; also the return of
\* update_component_with
DropView(w) ==
    /\ ~panicked
    /\ w \in views
    /\ views' = views \ {w}
    /\ UNCHANGED <<next, free, storages, hist, dispVars, sysVars>>

\* the calls a user of the registry makes, each statement releasing what it
\* borrowed; delete_entity is called for identities create_entity returned
\* (deleted since or not); the types are handled alike, and only Position
\* is given values other than the default
EMNext ==
    \/ /\ AllocNext(next, free) <= MaxEntities
       /\ \E value \in Entities : CreateEntity(value)
    \/ \E entity \in Entities : entity < next /\ DeleteEntity(entity)
    \/ \E T \in Components, entity \in Entities : AddComponent(T, entity)
    \/ \E entity \in Entities, f \in Mutators :
          AddComponentWith("Position", entity, f)
    \/ \E T \in Components, entity \in Entities : RemoveComponent(T, entity)
    \/ \E T \in Components, entity \in Entities : ReadComponent(T, entity)
    \/ \E entity \in Entities, v \in Values :
          WriteComponent("Position", entity, v)
    \/ \E entity \in Entities, f \in Mutators :
          UpdateComponentWith("Position", entity, f)

(***************************************************************************)
(* Query and EntityIterator (src/src/entity_manager.rs)                    *)
(***************************************************************************)

\* the predicate given to check_component_by and used by the check_global
\* closure: |position| position.x > 2 in the tests
Predicate(x) == x > DefaultValue

\* the filters a Query is built from: check_component::<T>,
\* check_not_component::<Velocity>, check_component_by::<Position, _> with
\* Predicate, and check_global with a closure that reads Position with
\* get_component (as the example of the documentation does)
Filters ==
    {[k |-> "has", T |-> "Position"], [k |-> "has", T |-> "Velocity"],
     [k |-> "not", T |-> "Velocity"], [k |-> "by", T |-> "Position"],
     [k |-> "global", T |-> "Position"]}

\* the queries: Query::new followed by at most MaxFilters check_* calls
Queries == UNION {[1..n -> Filters] : n \in 0..MaxFilters}

\* the filter's closure panics for the entity: has_component and
\* get_component borrow the storage of the filter's type, and get_component
\* in the check_global closure is not guarded by has_component
FilterPanics(f, entity) ==
    \/ ~BorrowSucceeds(f.T)
    \/ f.k = "global" /\ StorageGetPanics(storages[f.T], entity)

\* what the filter's closure returns for the entity, where it does not panic
FilterValue(f, entity) ==
    CASE f.k = "has" -> HasComponent(f.T, entity)
      [] f.k = "not" -> ~HasComponent(f.T, entity)
      [] f.k = "by" -> IF HasComponent(f.T, entity)
                       THEN Predicate(StorageGet(storages[f.T], entity))
                       ELSE FALSE
      [] f.k = "global" -> IF FilterPanics(f, entity)
                           THEN FALSE
                           ELSE Predicate(StorageGet(storages[f.T], entity))

\* the loop of a check without its break: every filter is evaluated and ret
\* is what the last one returned
RECURSIVE CheckAllFrom(_, _, _, _)
CheckAllFrom(q, entity, i, acc) ==
    IF i > Len(q)
    THEN [ret |-> acc, evald |-> <<>>, fault |-> FALSE]
    ELSE IF FilterPanics(q[i], entity)
         THEN [ret |-> FALSE, evald |-> <<i>>, fault |-> TRUE]
         ELSE LET rest == CheckAllFrom(q, entity, i + 1, FilterValue(q[i], entity))
              IN  [rest EXCEPT !.evald = <<i>> \o @]

CheckFromStopsAtHit(q, entity, i, acc) ==
    IF i > Len(q)
    THEN [ret |-> acc, evald |-> <<>>, fault |-> FALSE]
    ELSE IF FilterPanics(q[i], entity)
         THEN [ret |-> FALSE, evald |-> <<i>>, fault |-> TRUE]
         ELSE [ret |-> FilterValue(q[i], entity), evald |-> <<i>>,
               fault |-> FALSE]

\* Query::check, the loop from the filter at position i on with acc the
\* value of ret there: the value returned, the positions of the filters evaluated, in
\* order, and whether one of them panicked
RECURSIVE CheckFrom(_, _, _, _)
CheckFrom(q, entity, i, acc) ==
    IF i > Len(q)
    THEN [ret |-> acc, evald |-> <<>>, fault |-> FALSE]
    ELSE IF FilterPanics(q[i], entity)
         THEN [ret |-> FALSE, evald |-> <<i>>, fault |-> TRUE]
         ELSE IF ~FilterValue(q[i], entity)
              THEN [ret |-> FALSE, evald |-> <<i>>, fault |-> FALSE]
              ELSE LET rest == CheckFrom(q, entity, i + 1, TRUE)
                   IN  [rest EXCEPT !.evald = <<i>> \o @]

CheckNoBreak(q, entity) == CheckAllFrom(q, entity, 1, TRUE)

\* Query::check
Check(q, entity) == CheckFrom(q, entity, 1, TRUE)

\* Iterator::next for EntityIterator with all_it at current, stopping at
\* the first entity the query rejects
RECURSIVE EntityIteratorNextStopsAtMiss(_, _)
EntityIteratorNextStopsAtMiss(q, current) ==
    LET r == IteratorNext(current, next, free)
    IN  IF r.item = None
        THEN [item |-> None, current |-> r.current, fault |-> FALSE]
        ELSE LET c == Check(q, r.item)
             IN  IF c.fault
                 THEN [item |-> None, current |-> r.current, fault |-> TRUE]
                 ELSE IF c.ret
                      THEN [item |-> r.item, current |-> r.current,
                            fault |-> FALSE]
                      ELSE [item |-> None, current |-> r.current,
                            fault |-> FALSE]

\* Iterator::next for EntityIterator with all_it at current: the loop over
\* all_it.next() up to the first entity the query accepts
RECURSIVE EntityIteratorNext(_, _)
EntityIteratorNext(q, current) ==
    LET r == IteratorNext(current, next, free)
    IN  IF r.item = None
        THEN [item |-> None, current |-> r.current, fault |-> FALSE]
        ELSE LET c == Check(q, r.item)
             IN  IF c.fault
                 THEN [item |-> None, current |-> r.current, fault |-> TRUE]
                 ELSE IF c.ret
                      THEN [item |-> r.item, current |-> r.current,
                            fault |-> FALSE]
                      ELSE EntityIteratorNext(q, r.current)

\* the items of at most fuel calls of next() on an EntityIterator, whether
\* the last call returned None, and whether a filter panicked
RECURSIVE EntityIteratorCollect(_, _, _)
EntityIteratorCollect(q, current, fuel) ==
    IF fuel = 0
    THEN [items |-> <<>>, ended |-> FALSE, fault |-> FALSE]
    ELSE LET r == EntityIteratorNext(q, current)
         IN  IF r.fault
             THEN [items |-> <<>>, ended |-> FALSE, fault |-> TRUE]
             ELSE IF r.item = None
                  THEN [items |-> <<>>, ended |-> TRUE, fault |-> FALSE]
                  ELSE LET rest == EntityIteratorCollect(q, r.current, fuel - 1)
                       IN  [rest EXCEPT !.items = <<r.item>> \o @]

\* EntityManager::iter(query), collected; no iteration over the identities
\* below MaxEntities needs more calls of next()
QueryIter(q) ==
    EntityIteratorCollect(q, IteratorNew(next, free), MaxEntities + 2)

\* the filters whose closure is written by the library: check_component,
\* check_not_component and check_component_by
LibraryFilters == {f \in Filters : f.k \in {"has", "not", "by"}}

\* the queries built from them only
LibraryQueries ==
    {q \in Queries : \A i \in 1..Len(q) : q[i] \in LibraryFilters}

\* for entity in entity_manager.iter(&query) { }: iter and check take the
\* registry by shared reference, the closures call has_component and
\* get_component, and every Ref is dropped before the closure returns
IterQuery(q) ==
    /\ ~panicked
    /\ \/ UNCHANGED vars /\ ~QueryIter(q).fault
       \/ Fault /\ QueryIter(q).fault

(***************************************************************************)
(* EventDispatcher, Adapter, Connection (src/src/event_dispatcher.rs)      *)
(*                                                                         *)
(* dispatch() is followed step by step, because handlers run inside it:    *)
(* one step pops and runs a queued closure, one step per handler called by *)
(* Adapter::invoke, one step when on_event returns.  The calls a handler   *)
(* makes in on_event are the steps taken while dpc = "handler".  Handlers  *)
(* do not call dispatch() themselves.                                      *)
(***************************************************************************)

EventTypes == {"Event1", "Event2"}
Handlers == {"h1", "h2"}
\* the EventHandler<E> impls of each handler type: h1 has both (Receiver1),
\* h2 only EventHandler<Event1>
Handles(h) == IF h = "h1" THEN EventTypes ELSE {"Event1"}
Subscriptions == {p \in Handlers \X EventTypes : p[2] \in Handles(p[1])}

NoHandler == "none"
NoCur == [id |-> 0, ev |-> "none", idx |-> 0]

\* Adapter::connect
AdapterConnect(handlers, h) == Append(handlers, h)

\* the last position of h, 0 for None
AdapterPositionLast(handlers, h) ==
    LET S == {k \in 1..Len(handlers) : handlers[k] = h}
    IN  IF S = {} THEN 0 ELSE CHOOSE k \in S : \A j \in S : k >= j

\* handlers.iter().position(ptr::eq): the first position of h, 0 for None
AdapterPosition(handlers, h) ==
    LET S == {k \in 1..Len(handlers) : handlers[k] = h}
    IN  IF S = {} THEN 0 ELSE CHOOSE k \in S : \A j \in S : k <= j

\* Vec::remove(pos)
VecRemove(v, pos) == SubSeq(v, 1, pos - 1) \o SubSeq(v, pos + 1, Len(v))

\* Adapter::disconnect
AdapterDisconnect(handlers, h) ==
    IF AdapterPosition(handlers, h) = 0
    THEN handlers
    ELSE VecRemove(handlers, AdapterPosition(handlers, h))

\* EventDispatcher::new
DispatcherNew ==
    /\ pendings = <<>>
    /\ adapters = [ev \in EventTypes |-> <<>>]

\* who may make a call (one thread): a handler inside on_event, a system
\* inside run, or the code outside update() and dispatch()
CanCall ==
    /\ ~panicked
    /\ \/ dpc = "handler"
       \/ dpc = "idle" /\ spc \in {"idle", "running"}

\* the id of the event whose handler makes the call, 0 outside on_event
CallerEvent == IF dpc = "handler" THEN cur.id ELSE 0

\* the position of the system whose run makes the call, 0 outside run
CallerSystem == IF dpc = "idle" /\ spc = "running" THEN sidx ELSE 0

\* pendings.borrow_mut().push_back(Box::new(closure))
Enqueue(kind, ev, h) ==
    /\ pendings' = Append(pendings, [id |-> Len(submitted) + 1, kind |-> kind,
                                     ev |-> ev, h |-> h])
    /\ submitted' = Append(submitted, [kind |-> kind, ev |-> ev, h |-> h,
                                       in |-> CallerEvent,
                                       sys |-> CallerSystem])

PushNow(ev) ==
    /\ CanCall
    /\ submitted' = Append(submitted, [kind |-> "invoke", ev |-> ev,
                                       h |-> NoHandler, in |-> CallerEvent,
                                       sys |-> CallerSystem])
    /\ trace' = trace \o [k \in 1..Len(adapters[ev]) |->
                            [t |-> "deliver", id |-> Len(submitted) + 1,
                             h |-> adapters[ev][k]]]
    /\ UNCHANGED <<notDisp, pendings, adapters, connections, owned, borrowed, dpc, cur,
                   panicked>>

\* EventDispatcher::push
Push(ev) ==
    /\ CanCall
    /\ Enqueue("invoke", ev, NoHandler)
    /\ UNCHANGED <<notDisp, adapters, connections, owned, borrowed, dpc, cur, panicked,
                   trace>>

ConnectNow(h, ev) ==
    /\ CanCall
    /\ submitted' = Append(submitted, [kind |-> "connect", ev |-> ev, h |-> h,
                                       in |-> CallerEvent,
                                       sys |-> CallerSystem])
    /\ adapters' = [adapters EXCEPT ![ev] = AdapterConnect(@, h)]
    /\ UNCHANGED <<notDisp, pendings, connections, owned, borrowed, dpc, cur, panicked,
                   trace>>

\* Dispatcher::connect for EventDispatcher
Connect(h, ev) ==
    /\ CanCall
    /\ Enqueue("connect", ev, h)
    /\ UNCHANGED <<notDisp, adapters, connections, owned, borrowed, dpc, cur, panicked,
                   trace>>

\* Dispatcher::disconnect for EventDispatcher
Disconnect(h, ev) ==
    /\ CanCall
    /\ Enqueue("disconnect", ev, h)
    /\ UNCHANGED <<notDisp, adapters, connections, owned, borrowed, dpc, cur, panicked,
                   trace>>

\* EventDispatcher::create_connection (Connection::new)
CreateConnection(h, ev) ==
    /\ CanCall
    /\ h \in owned
    /\ connections' = connections \cup {<<h, ev>>}
    /\ UNCHANGED <<notDisp, pendings, adapters, owned, borrowed, dpc, cur, panicked,
                   submitted, trace>>

\* an upgrade that succeeds whenever the Connection was made from a handler
UpgradeUnlessEmpty(h) == h # NoHandler

\* Weak::upgrade of a handler: some Rc to it is left, the owner's, one in
\* an adapter or one captured by a queued closure
Upgrade(h) ==
    \/ h \in owned
    \/ \E ev \in EventTypes : \E k \in 1..Len(adapters[ev]) : adapters[ev][k] = h
    \/ \E k \in 1..Len(pendings) :
          pendings[k].kind # "invoke" /\ pendings[k].h = h

\* Weak::upgrade of the dispatcher: the Rc of its user is left
DispatcherUpgrade == dpc # "dropped"

\* who may call a method of a Connection: whoever may call the dispatcher,
\* and the code that dropped the dispatcher
ConnectionCaller == ~panicked /\ (dpc = "dropped" \/ CanCall)

\* Connection::empty, Default: both Weak are Weak::new()
ConnectionEmpty(ev) ==
    /\ ConnectionCaller
    /\ connections' = connections \cup {<<NoHandler, ev>>}
    /\ UNCHANGED <<notDisp, pendings, adapters, owned, borrowed, dpc, cur, panicked,
                   submitted, trace>>

\* the owner of handler h drops its Rc, outside dispatch()
DropHandler(h) ==
    /\ ~panicked /\ dpc \in {"idle", "dropped"} /\ spc = "idle"
    /\ h \in owned
    /\ owned' = owned \ {h}
    /\ UNCHANGED <<notDisp, pendings, adapters, connections, borrowed, dpc, cur,
                   panicked, submitted, trace>>

\* the user drops its Rc of the dispatcher, outside dispatch(): the queue
\* and the adapters are dropped with it, and the Rc they hold
DropDispatcher ==
    /\ ~panicked /\ dpc = "idle" /\ spc = "idle"
    /\ dpc' = "dropped"
    /\ pendings' = <<>>
    /\ adapters' = [ev \in EventTypes |-> <<>>]
    /\ UNCHANGED <<notDisp, connections, owned, borrowed, cur, panicked, submitted,
                   trace>>

\* Connection::connect
ConnectionConnect(h, ev) ==
    /\ <<h, ev>> \in connections
    /\ IF DispatcherUpgrade /\ Upgrade(h)
       THEN Connect(h, ev)
       ELSE ConnectionCaller /\ UNCHANGED vars

\* Connection::disconnect
ConnectionDisconnect(h, ev) ==
    /\ <<h, ev>> \in connections
    /\ IF DispatcherUpgrade /\ Upgrade(h)
       THEN Disconnect(h, ev)
       ELSE ConnectionCaller /\ UNCHANGED vars

PopBack(q) == [event |-> q[Len(q)], rest |-> SubSeq(q, 1, Len(q) - 1)]

\* EventDispatcher::pop_event_ on a queue that is not empty
PopEvent(q) == [event |-> Head(q), rest |-> Tail(q)]

\* dispatch() is called
DispatchBegin ==
    /\ dpc = "idle" /\ spc = "idle" /\ ~panicked
    /\ dpc' = "loop"
    /\ UNCHANGED <<notDisp, pendings, adapters, connections, owned, borrowed, cur,
                   panicked, submitted, trace>>

\* a loop that may end while actions are pending
QueueDrainedEarly == dpc = "loop" /\ ~panicked

\* while let Some(..) = self.pop_event_() fails
QueueDrained == dpc = "loop" /\ ~panicked /\ pendings = <<>>

\* dispatch() returns to the code that called it (not update())
DispatchReturn ==
    /\ QueueDrained
    /\ spc = "idle"
    /\ dpc' = "idle"
    /\ UNCHANGED <<notDisp, pendings, adapters, connections, owned, borrowed, cur,
                   panicked, submitted, trace>>

\* a popped closure starts
Executed(event) == Append(trace, [t |-> "exec", id |-> event.id, h |-> NoHandler])

\* a connect that subscribes the handler for every event type it handles
ExecConnectAllTypes ==
    /\ dpc = "loop" /\ ~panicked
    /\ pendings # <<>>
    /\ LET event == PopEvent(pendings).event
       IN  /\ event.kind = "connect"
           /\ pendings' = PopEvent(pendings).rest
           /\ adapters' = [ev \in EventTypes |->
                              IF ev \in Handles(event.h)
                              THEN AdapterConnect(adapters[ev], event.h)
                              ELSE adapters[ev]]
           /\ trace' = Executed(event)
    /\ UNCHANGED <<notDisp, connections, owned, borrowed, dpc, cur, panicked, submitted>>

\* the closure queued by connect runs
ExecConnect ==
    /\ dpc = "loop" /\ ~panicked
    /\ pendings # <<>>
    /\ LET event == PopEvent(pendings).event
       IN  /\ event.kind = "connect"
           /\ pendings' = PopEvent(pendings).rest
           /\ adapters' = [adapters EXCEPT ![event.ev] = AdapterConnect(@, event.h)]
           /\ trace' = Executed(event)
    /\ UNCHANGED <<notDisp, connections, owned, borrowed, dpc, cur, panicked, submitted>>

\* the closure queued by disconnect runs
ExecDisconnect ==
    /\ dpc = "loop" /\ ~panicked
    /\ pendings # <<>>
    /\ LET event == PopEvent(pendings).event
       IN  /\ event.kind = "disconnect"
           /\ pendings' = PopEvent(pendings).rest
           /\ adapters' = [adapters EXCEPT ![event.ev] = AdapterDisconnect(@, event.h)]
           /\ trace' = Executed(event)
    /\ UNCHANGED <<notDisp, connections, owned, borrowed, dpc, cur, panicked, submitted>>

\* the closure queued by push runs: Adapter::invoke starts
ExecInvoke ==
    /\ dpc = "loop" /\ ~panicked
    /\ pendings # <<>>
    /\ LET event == PopEvent(pendings).event
       IN  /\ event.kind = "invoke"
           /\ pendings' = PopEvent(pendings).rest
           /\ cur' = [id |-> event.id, ev |-> event.ev, idx |-> 1]
           /\ trace' = Executed(event)
    /\ dpc' = "invoke"
    /\ UNCHANGED <<notDisp, adapters, connections, owned, borrowed, panicked, submitted>>

\* Adapter::invoke calling a handler once however often it is in the list
InvokeHandlerOnce ==
    /\ dpc = "invoke" /\ ~panicked
    /\ cur.idx <= Len(adapters[cur.ev])
    /\ LET h == adapters[cur.ev][cur.idx]
       IN  IF \E k \in 1..Len(trace) :
                  trace[k].t = "deliver" /\ trace[k].id = cur.id /\ trace[k].h = h
           THEN /\ cur' = [cur EXCEPT !.idx = @ + 1]
                /\ UNCHANGED <<notDisp, pendings, adapters, connections, owned,
                               borrowed, dpc, panicked, submitted, trace>>
           ELSE /\ h \notin borrowed
                /\ borrowed' = borrowed \cup {h}
                /\ trace' = Append(trace, [t |-> "deliver", id |-> cur.id, h |-> h])
                /\ dpc' = "handler"
                /\ UNCHANGED <<notDisp, pendings, adapters, connections, owned, cur,
                               panicked, submitted>>

\* Adapter::invoke: handler.borrow_mut().on_event(event) is entered
InvokeHandler ==
    /\ dpc = "invoke" /\ ~panicked
    /\ cur.idx <= Len(adapters[cur.ev])
    /\ LET h == adapters[cur.ev][cur.idx]
       IN  /\ h \notin borrowed
           /\ borrowed' = borrowed \cup {h}
           /\ trace' = Append(trace, [t |-> "deliver", id |-> cur.id, h |-> h])
    /\ dpc' = "handler"
    /\ UNCHANGED <<notDisp, pendings, adapters, connections, owned, cur, panicked,
                   submitted>>

\* Adapter::invoke: handler.borrow_mut() panics, the handler is borrowed
InvokePanic ==
    /\ dpc = "invoke" /\ ~panicked
    /\ cur.idx <= Len(adapters[cur.ev])
    /\ adapters[cur.ev][cur.idx] \in borrowed
    /\ panicked' = TRUE
    /\ UNCHANGED <<notDisp, pendings, adapters, connections, owned, borrowed, dpc, cur,
                   submitted, trace>>

\* on_event returns
HandlerReturn ==
    /\ dpc = "handler" /\ ~panicked
    /\ borrowed' = borrowed \ {adapters[cur.ev][cur.idx]}
    /\ cur' = [cur EXCEPT !.idx = @ + 1]
    /\ dpc' = "invoke"
    /\ UNCHANGED <<notDisp, pendings, adapters, connections, owned, panicked, submitted,
                   trace>>

\* Adapter::invoke returns: every handler of the list was called
InvokeEnd ==
    /\ dpc = "invoke" /\ ~panicked
    /\ cur.idx > Len(adapters[cur.ev])
    /\ trace' = Append(trace, [t |-> "done", id |-> cur.id, h |-> NoHandler])
    /\ cur' = NoCur
    /\ dpc' = "loop"
    /\ UNCHANGED <<notDisp, pendings, adapters, connections, owned, borrowed, panicked,
                   submitted>>

DispInit ==
    /\ DispatcherNew
    /\ connections = {}
    /\ owned = Handlers
    /\ borrowed = {}
    /\ dpc = "idle"
    /\ cur = NoCur
    /\ panicked = FALSE
    /\ submitted = <<>>
    /\ trace = <<>>

(***************************************************************************)
(* RefreshPeriod, SystemManager (src/src/system_manager.rs)                *)
(*                                                                         *)
(* update() is followed step by step: one step per system visited, the     *)
(* steps of the system's run (its calls, then its return), the steps of    *)
(* the dispatch() that follows, one step when update() returns.            *)
(***************************************************************************)

Instants == 0..MaxTime
EveryTime == [k |-> "EveryTime", t |-> 0]
Stop == [k |-> "Stop", t |-> 0]
At(t) == [k |-> "At", t |-> t]
RefreshPeriods == {EveryTime, Stop} \cup {At(t) : t \in Instants}

\* Instant::cmp
InstantCmp(a, b) == IF a < b THEN "Less" ELSE IF a = b THEN "Equal" ELSE "Greater"

\* a cmp whose arm (At, Stop) answers Less
CmpAtBelowStop(self, other) ==
    CASE self.k = "EveryTime" /\ other.k = "EveryTime" -> "Equal"
      [] self.k = "EveryTime" -> "Greater"
      [] self.k = "At" /\ other.k = "EveryTime" -> "Less"
      [] self.k = "At" /\ other.k = "At" -> InstantCmp(self.t, other.t)
      [] self.k = "At" /\ other.k = "Stop" -> "Less"
      [] self.k = "Stop" /\ other.k = "Stop" -> "Equal"
      [] OTHER -> "Less"

\* RefreshPeriod::cmp, arm by arm
Cmp(self, other) ==
    CASE self.k = "EveryTime" /\ other.k = "EveryTime" -> "Equal"
      [] self.k = "EveryTime" -> "Greater"
      [] self.k = "At" /\ other.k = "EveryTime" -> "Less"
      [] self.k = "At" /\ other.k = "At" -> InstantCmp(self.t, other.t)
      [] self.k = "At" /\ other.k = "Stop" -> "Greater"
      [] self.k = "Stop" /\ other.k = "Stop" -> "Equal"
      [] OTHER -> "Less"

\* a < b, from PartialOrd::partial_cmp
Lt(a, b) == Cmp(a, b) = "Less"

\* the lesser of a and b
MinOf(a, b) == IF Cmp(a, b) = "Greater" THEN b ELSE a

\* std::cmp::max(a, b): b unless a is greater
Max(a, b) == IF Cmp(a, b) = "Greater" THEN a ELSE b

\* the objects registered as systems and System::name of each; s1 is also
\* an EventHandler<Event1>
SystemObjs == {"s1", "s2"}
SystemNames == {"a", "b"}
Name(obj) == IF obj = "s1" THEN "a" ELSE "b"

MustRunUnlessEqual(nw, r) == At(nw) # r

\* update(): the test that decides whether the system is run
MustRun(nw, r) == Lt(At(nw), r)

\* SystemManager::new
SystemManagerNew ==
    /\ systems = <<>>
    /\ refresh = <<>>
    /\ names = [n \in SystemNames |-> 0]

\* an add_system that registers the system as stopped
AddSystemStopped(obj) ==
    /\ ~panicked /\ spc = "idle" /\ dpc = "idle"
    /\ names' = [names EXCEPT ![Name(obj)] = Len(systems) + 1]
    /\ systems' = Append(systems, obj)
    /\ refresh' = Append(refresh, Stop)
    /\ UNCHANGED <<allocVars, emVars, dispVars, time, spc, sidx, now, ret, local>>

\* SystemManager::add_system
AddSystem(obj) ==
    /\ ~panicked /\ spc = "idle" /\ dpc = "idle"
    /\ names' = [names EXCEPT ![Name(obj)] = Len(systems) + 1]
    /\ systems' = Append(systems, obj)
    /\ refresh' = Append(refresh, EveryTime)
    /\ UNCHANGED <<allocVars, emVars, dispVars, time, spc, sidx, now, ret, local>>

\* a set_refresh_by_pos that stores the value for every system
SetRefreshAll(rs, id, value) == [k \in DOMAIN rs |-> value]

\* SystemManager::set_refresh_by_pos, id counted from 1
SetRefreshByPos(rs, id, value) == [rs EXCEPT ![id] = value]

\* SystemManager::set_refresh
SetRefresh(name, value) ==
    /\ CanCall
    /\ refresh' = IF names[name] # 0
                  THEN SetRefreshByPos(refresh, names[name], value)
                  ELSE refresh
    /\ UNCHANGED <<allocVars, emVars, dispVars, systems, names, time, spc,
                   sidx, now, ret, local>>

\* the clock advances
Tick ==
    /\ spc = "idle" /\ dpc = "idle" /\ ~panicked
    /\ time < MaxTime
    /\ time' = time + 1
    /\ UNCHANGED <<allocVars, emVars, dispVars, systems, refresh, names, spc,
                   sidx, now, ret, local>>

\* the clock advances while a system runs in update()
TickInRun ==
    /\ spc = "running" /\ dpc = "idle" /\ ~panicked
    /\ time < MaxTime
    /\ time' = time + 1
    /\ UNCHANGED <<allocVars, emVars, dispVars, systems, refresh, names, spc,
                   sidx, now, ret, local>>

\* update() is called: let mut ret = Stop; let now = Instant::now()
UpdateBegin ==
    /\ ~panicked /\ spc = "idle" /\ dpc = "idle"
    /\ ret' = Stop
    /\ now' = time
    /\ sidx' = 1
    /\ spc' = "visit"
    /\ UNCHANGED <<allocVars, emVars, dispVars, systems, refresh, names, time,
                   local>>

\* update(): a system is visited that is to run: system.borrow_mut(), and
\* run(now) is entered
VisitRun ==
    /\ ~panicked /\ spc = "visit"
    /\ sidx <= Len(systems)
    /\ MustRun(now, refresh[sidx])
    /\ systems[sidx] \notin borrowed
    /\ local' = refresh[sidx]
    /\ ret' = Max(ret, refresh[sidx])
    /\ borrowed' = borrowed \cup {systems[sidx]}
    /\ spc' = "running"
    /\ UNCHANGED <<allocVars, emVars, pendings, adapters, connections, owned,
                   dpc, cur, panicked, submitted, trace, systems, refresh,
                   names, time, sidx, now>>

\* update(): a system is visited that is not to run
VisitSkip ==
    /\ ~panicked /\ spc = "visit"
    /\ sidx <= Len(systems)
    /\ ~MustRun(now, refresh[sidx])
    /\ ret' = Max(ret, refresh[sidx])
    /\ sidx' = sidx + 1
    /\ UNCHANGED <<allocVars, emVars, dispVars, systems, refresh, names, time,
                   spc, now, local>>

StoreAlways(rs, id, old, new) == SetRefreshByPos(rs, id, new)

\* update(): if new_refresh != refresh { self.set_refresh_by_pos(..) }
StoreRefresh(rs, id, old, new) ==
    IF new # old THEN SetRefreshByPos(rs, id, new) ELSE rs

RunReturnNoDispatch(r) ==
    /\ ~panicked /\ spc = "running" /\ dpc = "idle"
    /\ refresh' = StoreRefresh(refresh, sidx, local, r)
    /\ borrowed' = borrowed \ {systems[sidx]}
    /\ local' = Stop
    /\ sidx' = sidx + 1
    /\ spc' = "visit"
    /\ UNCHANGED <<allocVars, emVars, pendings, adapters, connections, owned,
                   dpc, cur, panicked, submitted, trace, systems, names, time,
                   now, ret>>

\* run(now) returns r: the new state is stored and dispatch() is called
RunReturn(r) ==
    /\ ~panicked /\ spc = "running" /\ dpc = "idle"
    /\ refresh' = StoreRefresh(refresh, sidx, local, r)
    /\ spc' = "drain"
    /\ dpc' = "loop"
    /\ UNCHANGED <<allocVars, emVars, pendings, adapters, connections, owned,
                   borrowed, cur, panicked, submitted, trace, systems, names,
                   time, sidx, now, ret, local>>

\* dispatch() returns to update(): the RefMut of the system and the local
\* refresh are dropped and the loop goes on
DrainEnd ==
    /\ QueueDrained
    /\ spc = "drain"
    /\ dpc' = "idle"
    /\ borrowed' = borrowed \ {systems[sidx]}
    /\ local' = Stop
    /\ sidx' = sidx + 1
    /\ spc' = "visit"
    /\ UNCHANGED <<allocVars, emVars, pendings, adapters, connections, owned,
                   cur, panicked, submitted, trace, systems, refresh, names,
                   time, now, ret>>

\* update() returns ret: its locals are gone
UpdateReturn ==
    /\ ~panicked /\ spc = "visit"
    /\ sidx > Len(systems)
    /\ spc' = "idle"
    /\ sidx' = 0
    /\ now' = 0
    /\ ret' = Stop
    /\ UNCHANGED <<allocVars, emVars, dispVars, systems, refresh, names, time,
                   local>>

SysInit ==
    /\ SystemManagerNew
    /\ time = 0
    /\ spc = "idle"
    /\ sidx = 0
    /\ now = 0
    /\ ret = Stop
    /\ local = Stop

(***************************************************************************)
(* The specifications: each runs one part of the crate, the state of the   *)
(* other parts stays as constructed                                        *)
(***************************************************************************)

AllocInit ==
    /\ AllocatorNew
    /\ hist = <<>>
    /\ storages = [T \in Components |-> StorageNew]
    /\ views = {}
    /\ DispInit
    /\ SysInit

AllocNextStep ==
    \/ AllocatorAlloc
    \/ AllocatorFree

SpecAlloc == AllocInit /\ [][AllocNextStep]_vars

EMInit ==
    /\ EntityManagerNew
    /\ hist = <<>>
    /\ DispInit
    /\ SysInit

SpecEM == EMInit /\ [][EMNext]_vars

StoreInit ==
    /\ AllocatorNew
    /\ hist = <<>>
    /\ storages = [T \in Components |-> StorageNew]
    /\ views = {}
    /\ DispInit
    /\ SysInit

\* the calls made on one storage, for the identities of Entities
StoreNext ==
    \/ \E entity \in Entities : StoreAlloc(entity)
    \/ \E entity \in Entities : StoreFree(entity)
    \/ \E entity \in Entities, v \in Values : StoreWrite(entity, v)

SpecStore == StoreInit /\ [][StoreNext]_vars

BorrowInit ==
    /\ EntityManagerNew
    /\ hist = <<>>
    /\ DispInit
    /\ SysInit

\* the views a caller may take
Views == Components \X Entities \X {"ref", "mut"}

\* the calls a user of the registry makes while it holds Ref and RefMut of
\* components (as the closure of update_component_with does); the values
\* of the components stay as allocated
BorrowNext ==
    \/ /\ AllocNext(next, free) <= MaxEntities
       /\ \E value \in Entities : CreateEntity(value)
    \/ \E T \in Components, entity \in Entities : AddComponent(T, entity)
    \/ \E T \in Components, entity \in Entities : RemoveComponent(T, entity)
    \/ \E T \in Components, entity \in Entities : HasComponentCall(T, entity)
    \/ \E T \in Components, entity \in Entities : ReadComponent(T, entity)
    \/ \E T \in Components, entity \in Entities :
          Cardinality(views) < MaxViews /\ GetComponent(T, entity)
    \/ \E T \in Components, entity \in Entities :
          Cardinality(views) < MaxViews /\ GetComponentMut(T, entity)
    \/ \E w \in Views : DropView(w)

SpecBorrow == BorrowInit /\ [][BorrowNext]_vars

QueryInit ==
    /\ EntityManagerNew
    /\ hist = <<>>
    /\ DispInit
    /\ SysInit

\* the calls that build the registry the queries are run on; only Position
\* gets a value other than the default
QueryNext ==
    \/ /\ AllocNext(next, free) <= MaxEntities
       /\ \E value \in Entities : CreateEntity(value)
    \/ \E entity \in Entities : entity < next /\ DeleteEntity(entity)
    \/ \E T \in Components, entity \in Entities : AddComponent(T, entity)
    \/ \E entity \in Entities :
          AddComponentWith("Position", entity, [k |-> "set", v |-> MaxVal])
    \/ \E T \in Components, entity \in Entities : RemoveComponent(T, entity)
    \/ \E q \in LibraryQueries : IterQuery(q)

SpecQuery == QueryInit /\ [][QueryNext]_vars

DInit ==
    /\ AllocatorNew
    /\ hist = <<>>
    /\ storages = [T \in Components |-> StorageNew]
    /\ views = {}
    /\ DispInit
    /\ SysInit

\* the Connections created in the runs of the dispatcher
ConnPairs == {<<"h1", "Event1">>}

\* the calls made on the dispatcher, by its user or by a handler in
\* on_event, and the steps of dispatch(); a handler has no Rc of itself and
\* connects through a Connection
DNext ==
    \/ \E ev \in EventTypes : Len(submitted) < MaxActions /\ Push(ev)
    \/ \E p \in Subscriptions :
          /\ Len(submitted) < MaxActions
          /\ dpc = "idle" /\ p[1] \in owned
          /\ Connect(p[1], p[2])
    \/ \E p \in Subscriptions :
          /\ Len(submitted) < MaxActions
          /\ dpc = "idle" /\ p[1] \in owned
          /\ Disconnect(p[1], p[2])
    \/ \E p \in ConnPairs : CreateConnection(p[1], p[2])
    \/ \E p \in ConnPairs :
          Len(submitted) < MaxActions /\ ConnectionConnect(p[1], p[2])
    \/ \E p \in ConnPairs :
          Len(submitted) < MaxActions /\ ConnectionDisconnect(p[1], p[2])
    \/ DispatchBegin
    \/ DispatchReturn
    \/ ExecConnect
    \/ ExecDisconnect
    \/ ExecInvoke
    \/ InvokeHandler
    \/ HandlerReturn
    \/ InvokeEnd

SpecDisp == DInit /\ [][DNext]_vars

DrainInit == DInit

\* the steps dispatch() takes once it was called: they are taken as long as
\* one is possible, as the loop runs on and on_event returns
DrainSteps ==
    \/ DispatchReturn
    \/ ExecConnect
    \/ ExecDisconnect
    \/ ExecInvoke
    \/ InvokeHandler
    \/ HandlerReturn
    \/ InvokeEnd

\* the calls made on the dispatcher for one event type, by its user or (push)
\* by a handler in on_event, at most MaxActions of them, and the steps of
\* dispatch()
DrainNext ==
    \/ Len(submitted) < MaxActions /\ Push("Event1")
    \/ \E h \in Handlers :
          /\ Len(submitted) < MaxActions
          /\ dpc = "idle"
          /\ Connect(h, "Event1")
    \/ \E h \in Handlers :
          /\ Len(submitted) < MaxActions
          /\ dpc = "idle"
          /\ Disconnect(h, "Event1")
    \/ DispatchBegin
    \/ DrainSteps

SpecDrain == DrainInit /\ [][DrainNext]_vars /\ WF_vars(DrainSteps)

ConnInit == DInit

\* the Connections made in the runs with handlers and dispatcher dropped
ConnSubs == {<<"h1", "Event1">>, <<NoHandler, "Event1">>}

\* the calls of a user that drops handlers and the dispatcher, and the
\* steps of dispatch(); handlers make no calls in on_event
ConnNext ==
    \/ Len(submitted) < MaxActions /\ dpc = "idle" /\ Push("Event1")
    \/ \E h \in Handlers :
          /\ Len(submitted) < MaxActions
          /\ dpc = "idle" /\ h \in owned
          /\ Connect(h, "Event1")
    \/ dpc = "idle" /\ CreateConnection("h1", "Event1")
    \/ dpc \in {"idle", "dropped"} /\ ConnectionEmpty("Event1")
    \/ \E p \in ConnSubs :
          /\ Len(submitted) < MaxActions
          /\ dpc \in {"idle", "dropped"}
          /\ ConnectionConnect(p[1], p[2])
    \/ \E p \in ConnSubs :
          /\ Len(submitted) < MaxActions
          /\ dpc \in {"idle", "dropped"}
          /\ ConnectionDisconnect(p[1], p[2])
    \/ \E h \in Handlers : DropHandler(h)
    \/ DropDispatcher
    \/ DispatchBegin
    \/ DispatchReturn
    \/ ExecConnect
    \/ ExecDisconnect
    \/ ExecInvoke
    \/ InvokeHandler
    \/ HandlerReturn
    \/ InvokeEnd

SpecConn == ConnInit /\ [][ConnNext]_vars

SInit ==
    /\ AllocatorNew
    /\ hist = <<>>
    /\ storages = [T \in Components |-> StorageNew]
    /\ views = {}
    /\ DispInit
    /\ SysInit

\* the handlers connected in the runs of the scheduler: h1, and the system
\* s1
SysHandlers == {"h1", "s1"}

\* the calls made on the scheduler and the steps of update(); each object
\* is registered once; a system pushes events and sets refresh states in
\* its run, handlers do in on_event
SNext ==
    \/ \E obj \in SystemObjs :
          /\ Len(systems) < MaxSystems
          /\ \A k \in 1..Len(systems) : systems[k] # obj
          /\ AddSystem(obj)
    \/ \E n \in SystemNames, v \in RefreshPeriods : SetRefresh(n, v)
    \/ Tick
    \/ \E h \in SysHandlers :
          /\ Len(submitted) < MaxSysActions
          /\ dpc = "idle" /\ spc = "idle"
          /\ Connect(h, "Event1")
    \/ Len(submitted) < MaxSysActions /\ Push("Event1")
    \/ UpdateBegin
    \/ VisitRun
    \/ VisitSkip
    \/ \E r \in RefreshPeriods : RunReturn(r)
    \/ ExecConnect
    \/ ExecInvoke
    \/ InvokeHandler
    \/ InvokePanic
    \/ HandlerReturn
    \/ InvokeEnd
    \/ DrainEnd
    \/ UpdateReturn

SpecSys == SInit /\ [][SNext]_vars

SchedInit == SInit

\* the scheduler alone: the systems push no event and connect no handler,
\* so that the dispatch() after each run finds its queue empty
SchedNext ==
    \/ \E obj \in SystemObjs :
          /\ Len(systems) < MaxSystems
          /\ \A k \in 1..Len(systems) : systems[k] # obj
          /\ AddSystem(obj)
    \/ \E n \in SystemNames, v \in RefreshPeriods : SetRefresh(n, v)
    \/ Tick
    \/ TickInRun
    \/ UpdateBegin
    \/ VisitRun
    \/ VisitSkip
    \/ \E r \in RefreshPeriods : RunReturn(r)
    \/ DrainEnd
    \/ UpdateReturn

SpecSched == SchedInit /\ [][SchedNext]_vars

DupInit == SInit

\* the objects registered in the runs with a name registered twice: s3 is
\* a second system whose name() is that of s2
DupObjs == {"s1", "s2", "s3"}

\* the scheduler alone, with systems of the same name
DupNext ==
    \/ \E obj \in DupObjs :
          /\ Len(systems) < MaxSystems
          /\ \A k \in 1..Len(systems) : systems[k] # obj
          /\ AddSystem(obj)
    \/ \E n \in SystemNames, v \in RefreshPeriods : SetRefresh(n, v)
    \/ UpdateBegin
    \/ VisitRun
    \/ VisitSkip
    \/ \E r \in RefreshPeriods : RunReturn(r)
    \/ DrainEnd
    \/ UpdateReturn

SpecDup == DupInit /\ [][DupNext]_vars

(***************************************************************************)
(* Claims about the allocator                                              *)
(***************************************************************************)

\* identities returned by alloc() among the first n calls of h and not freed
\* by a later call among them
HeldAfter(h, n) ==
    {e \in Issued(h) :
        \E k \in 1..n :
            /\ h[k].op = "alloc" /\ h[k].e = e
            /\ \A j \in (k+1)..n : ~(h[j].op = "free" /\ h[j].e = e)}

\* C1: alloc() never returns an identity that is live (returned by an
\* earlier alloc and not freed since) when free is only applied to
\* identities alloc returned: no identity is held twice at once.
C1_AllocNeverReturnsLive ==
    \A k \in 1..Len(hist) :
        hist[k].op = "alloc" => hist[k].e \notin HeldAfter(hist, k - 1)

\* an identity was freed and handed out again while another one is held
C1_Witness ==
    \E k \in 2..Len(hist) :
        /\ hist[k].op = "alloc"
        /\ \E j \in 1..(k-1) : hist[j].op = "free" /\ hist[j].e = hist[k].e
        /\ HeldAfter(hist, k - 1) # {}

\* h is N allocs, then frees up to position F, then allocs only
Shape(h, N, F) ==
    /\ N <= F
    /\ \A k \in 1..N : h[k].op = "alloc"
    /\ \A k \in (N+1)..F : h[k].op = "free"
    /\ \A k \in (F+1)..Len(h) : h[k].op = "alloc"

\* C10: from a fresh allocator N alloc() calls return 0..N-1 in order; after
\* freeing a subset S the next |S| alloc() calls return members of S, none
\* twice (so exactly S), and every further alloc() returns N, N+1, ... in
\* order.
C10_ReuseThenFresh ==
    \A N \in 0..Len(hist), F \in 0..Len(hist) :
        Shape(hist, N, F) =>
            LET S == {hist[k].e : k \in (N+1)..F}
                c == Cardinality(S)
                m == Len(hist) - F
            IN  /\ \A k \in 1..N : hist[k].e = k - 1
                /\ \A j \in 1..m :
                      IF j <= c
                      THEN /\ hist[F+j].e \in S
                           /\ \A i \in 1..(j-1) : hist[F+i].e # hist[F+j].e
                      ELSE hist[F+j].e = N + (j - c) - 1

\* two identities freed, both handed out again, then a fresh one
C10_Witness ==
    \E N \in 2..Len(hist), F \in 0..Len(hist) :
        /\ Shape(hist, N, F)
        /\ Cardinality({hist[k].e : k \in (N+1)..F}) = 2
        /\ Len(hist) - F = 3
        /\ hist[Len(hist)].e = N


(***************************************************************************)
(* Claims about the registry                                               *)
(***************************************************************************)

\* C2: after delete_entity(e) no registered component type has a component
\* for e and e is in the allocator's free set, whichever components e held;
\* no step puts an identity into the free set and leaves a component of it
\* in some storage.
C2_DeleteEntityComplete ==
    [][\A e \in Entities :
        /\ DeleteEntity(e) =>
            /\ \A T \in Components : ~StorageHas(storages'[T], e)
            /\ e \in free'
        /\ (e \notin free /\ e \in free') =>
            \A T \in Components : ~StorageHas(storages'[T], e)]_vars

\* an identity is in the free set (delete_entity alone puts it there) and
\* both storages have a slot for it, one that delete_entity scrubbed
C2_Witness ==
    \E e \in Entities :
        /\ e \in free
        /\ \A T \in Components : Len(storages[T].datas) = e + 1

(***************************************************************************)
(* Claims about the event dispatcher                                       *)
(***************************************************************************)

\* the places of trace where handler h was called for the pushed event p
Deliveries(p, h) ==
    {k \in 1..Len(trace) :
        trace[k].t = "deliver" /\ trace[k].id = p /\ trace[k].h = h}

\* the places of trace of kind t for the action id
Places(t, id) == {k \in 1..Len(trace) : trace[k].t = t /\ trace[k].id = id}

\* a step that is a call on the dispatcher (or the call or return of
\* dispatch() itself), not a step of the queue's processing
CallStep == dpc \in {"idle", "handler"}

\* every delivery to h follows a connect of h for that event type that was
\* submitted before the event
DeliveredOnlyIfConnected ==
    \A k \in 1..Len(trace) :
        trace[k].t = "deliver" =>
            \E c \in 1..(trace[k].id - 1) :
                /\ submitted[c].kind = "connect"
                /\ submitted[c].h = trace[k].h
                /\ submitted[c].ev = submitted[trace[k].id].ev

\* C3: connect, disconnect (on the dispatcher or through a Connection) and
\* push only append one action to the pending queue: no step outside the
\* processing of the queue changes an adapter's list or calls a handler.
\* create_connection queues nothing and subscribes nothing, so a handler
\* for which no connect was submitted before an event never receives it.
C3_CallsOnlyEnqueue ==
    [][/\ CallStep =>
            /\ adapters' = adapters
            /\ trace' = trace
            /\ \/ pendings' = pendings /\ submitted' = submitted
               \/ /\ Len(submitted') = Len(submitted) + 1
                  /\ Len(pendings') = Len(pendings) + 1
                  /\ SubSeq(pendings', 1, Len(pendings)) = pendings
                  /\ pendings'[Len(pendings')].id = Len(submitted')
       /\ \A p \in Subscriptions :
            \/ Connect(p[1], p[2]) \/ Disconnect(p[1], p[2])
            \/ (Upgrade(p[1]) /\ ConnectionConnect(p[1], p[2]))
            \/ (Upgrade(p[1]) /\ ConnectionDisconnect(p[1], p[2]))
            \/ Push(p[2])
            => Len(pendings') = Len(pendings) + 1
       /\ \A p \in Subscriptions :
            CreateConnection(p[1], p[2]) =>
                pendings' = pendings /\ submitted' = submitted
       /\ DeliveredOnlyIfConnected']_vars

\* test_event_dispatcher_01: a Connection was created and never connected,
\* an Event1 was pushed and dispatched, and no handler was called
C3_Witness ==
    /\ <<"h1", "Event1">> \in connections
    /\ dpc = "idle"
    /\ \E k \in 1..Len(trace) :
        trace[k].t = "done" /\ submitted[trace[k].id].ev = "Event1"
    /\ \A k \in 1..Len(trace) : trace[k].t # "deliver"
    /\ \A ev \in EventTypes : adapters[ev] = <<>>

\* how often h is subscribed for ev once the first n submitted actions have
\* run one after the other
RECURSIVE SubCount(_, _, _)
SubCount(h, ev, n) ==
    IF n = 0 THEN 0
    ELSE LET c == SubCount(h, ev, n - 1)
             a == submitted[n]
         IN  IF a.ev = ev /\ a.h = h
             THEN IF a.kind = "connect" THEN c + 1
                  ELSE IF a.kind = "disconnect" /\ c > 0 THEN c - 1
                  ELSE c
             ELSE c

\* the actions run so far were run in the order of their submission
ExecutedInOrder ==
    \A k \in 1..Len(trace) :
        trace[k].t = "exec" =>
            trace[k].id = 1 + Cardinality({j \in 1..(k-1) : trace[j].t = "exec"})

\* C4: dispatch() runs the pending actions in exactly the order of their
\* submission, across event types and action kinds; a pushed event, once
\* delivered, has reached each handler as often as the connects and
\* disconnects submitted before it leave it subscribed: not at all when its
\* connect came after the push, once when a connect came before and no
\* disconnect did (a disconnect submitted after the push changes nothing).
C4_FifoOrder ==
    /\ ExecutedInOrder
    /\ \A p \in 1..Len(submitted) :
        Places("done", p) # {} =>
            \A h \in Handlers :
                Cardinality(Deliveries(p, h)) = SubCount(h, submitted[p].ev, p - 1)

\* test_event_dispatcher_03: Event2 then Event1 were pushed and h1 received
\* them in that order
C4_Witness ==
    \E p2 \in 1..Len(submitted), p1 \in 1..Len(submitted) :
        /\ p2 < p1
        /\ submitted[p2].kind = "invoke" /\ submitted[p2].ev = "Event2"
        /\ submitted[p1].kind = "invoke" /\ submitted[p1].ev = "Event1"
        /\ \E k2 \in Deliveries(p2, "h1"), k1 \in Deliveries(p1, "h1") : k2 < k1

\* C5: connect, disconnect and push issued by a handler during dispatch()
\* are queued without fault; they change no subscriber list and call no
\* handler before the event being delivered has reached all its subscribers
\* (between the start and the end of a delivery only that event's handlers
\* are called), and they are run later in the same dispatch() call, in
\* submission order after all actions queued before.
C5_ReentrantCallsDeferred ==
    [][/\ ~panicked'
       /\ dpc \in {"invoke", "handler"} => adapters' = adapters
       /\ (dpc = "handler" /\ Len(submitted') > Len(submitted)) =>
            /\ submitted'[Len(submitted')].in = cur.id
            /\ pendings' = Append(pendings,
                 [id |-> Len(submitted'),
                  kind |-> submitted'[Len(submitted')].kind,
                  ev |-> submitted'[Len(submitted')].ev,
                  h |-> submitted'[Len(submitted')].h])
       /\ \A k \in 1..Len(trace') :
            /\ (trace'[k].t \in {"exec", "deliver"}
                    /\ submitted'[trace'[k].id].in > 0) =>
                \E j \in 1..(k-1) :
                    trace'[j].t = "done" /\ trace'[j].id = submitted'[trace'[k].id].in
            /\ trace'[k].t = "deliver" =>
                /\ trace'[k-1].t \in {"exec", "deliver"}
                /\ trace'[k-1].id = trace'[k].id
       /\ ExecutedInOrder'
       /\ dpc' = "idle" =>
            \A k \in 1..Len(pendings') : submitted'[pendings'[k].id].in = 0]_vars

\* an event pushed by a handler in on_event was delivered later in the same
\* dispatch() call
C5_Witness ==
    \E a \in 1..Len(submitted) :
        /\ submitted[a].in > 0
        /\ submitted[a].kind = "invoke"
        /\ \E h \in Handlers : Deliveries(a, h) # {}
        /\ Places("done", a) # {}

(***************************************************************************)
(* Claims about the system scheduler                                       *)
(***************************************************************************)

\* update() is at a system whose stored state is At(t)
VisitingAt(t) ==
    /\ ~panicked /\ spc = "visit"
    /\ sidx <= Len(systems)
    /\ refresh[sidx] = At(t)

\* C6: a system whose stored refresh state is At(t) is not invoked by an
\* update() whose clock reading now is earlier than t.
C6_NotRunBeforeAt ==
    [][\A t \in Instants : (VisitingAt(t) /\ now < t) => ~VisitRun]_vars

\* C7: a system whose stored refresh state is At(t) is invoked by the
\* first update() whose clock reading now is at or after t (and what it
\* returns becomes its next state).
C7_RunWhenDue ==
    [][\A t \in Instants : (VisitingAt(t) /\ now >= t) => VisitRun]_vars

\* C8: a system whose stored state is Stop is skipped by every update();
\* a run that returns Stop leaves Stop stored; and a stored Stop of a
\* system that is not in its run is replaced by set_refresh only.
C8_StopIsSkipped ==
    [][/\ VisitRun => refresh[sidx] # Stop
       /\ RunReturn(Stop) => refresh'[sidx] = Stop
       /\ \A i \in 1..Len(refresh) :
            (/\ refresh[i] = Stop
             /\ refresh'[i] # Stop
             /\ ~(spc = "running" /\ sidx = i)) =>
                \E n \in SystemNames, v \in RefreshPeriods : SetRefresh(n, v)]_vars

\* update() has just passed the first system, whose state is Stop, and did
\* not run it (ret is still Stop)
C8_Witness ==
    /\ spc = "visit"
    /\ sidx = 2
    /\ refresh[1] = Stop
    /\ ret = Stop
    /\ time > 0

\* C9: in update() the dispatcher is fully drained after each system that
\* is run and before the next one is visited: an action queued during the
\* run of system i, or by a handler, is run only in the drain that follows
\* that run, and is gone when the next system is visited; handlers are
\* called in a drain only; a skipped system is followed by no drain.
C9_DrainAfterEachRun ==
    [][/\ spc' \in {"visit", "idle"} =>
            \A k \in 1..Len(pendings') :
                /\ submitted'[pendings'[k].id].sys = 0
                /\ submitted'[pendings'[k].id].in = 0
       /\ (spc \in {"running", "drain"} /\ spc' = "visit") =>
            pendings' = <<>> /\ sidx' = sidx + 1
       /\ spc' = "running" =>
            \A k \in 1..Len(pendings') :
                submitted'[pendings'[k].id].sys \in {0, sidx'}
       /\ trace' # trace =>
            /\ spc = "drain" /\ spc' = "drain"
            /\ submitted[trace'[Len(trace')].id].sys \in {0, sidx}
       /\ VisitSkip =>
            dpc' = "idle" /\ pendings' = pendings /\ trace' = trace]_vars

\* an event pushed by the first system in its run was delivered to a
\* handler, and update() is now at the second system
C9_Witness ==
    /\ spc = "visit"
    /\ sidx = 2
    /\ Len(systems) = 2
    /\ \E k \in 1..Len(trace) :
        trace[k].t = "deliver" /\ submitted[trace[k].id].sys = 1


(***************************************************************************)
(* Claims about iteration, the storage and the registry                    *)
(***************************************************************************)

\* the sequence s is strictly ascending
Ascending(s) == \A i \in 1..Len(s), j \in 1..Len(s) : i < j => s[i] < s[j]

\* C11: after any sequence of alloc()/free(e) on issued identities, iter()
\* ends and yields, ascending and each once, exactly the identities of
\* 0..next-1 that are not in the free set.
C11_IterYieldsLive ==
    LET r == Iter(next, free)
    IN  /\ r.ended
        /\ Ascending(r.items)
        /\ {r.items[k] : k \in 1..Len(r.items)} = (0..(next - 1)) \ free

\* identity 0 and the highest issued identity are free, one between is live
C11_Witness ==
    /\ next = 3
    /\ free = {0, 2}
    /\ Iter(next, free).items = <<1>>

\* the place of the last call of hist that concerns the identity e, 0 if none
LastCall(e) ==
    LET ks == {k \in 1..Len(hist) : hist[k].e = e}
    IN  IF ks = {} THEN 0 ELSE CHOOSE k \in ks : \A j \in ks : j <= k

\* C12: has(e) is true iff alloc(e) was called and free(e) was not called
\* since; it is false at and beyond the backing length and for the slots
\* that an alloc of a higher identity only filled.
C12_HasIffAllocated ==
    \A e \in 0..MaxEntities :
        /\ StorageHas(TheStorage, e) <=> e \in HeldAfter(hist, Len(hist))
        /\ e >= Len(TheStorage.datas) => ~StorageHas(TheStorage, e)

\* identity 1 was allocated and nothing else: slot 0 is fill, 2 is beyond
C12_Witness ==
    /\ hist = <<[op |-> "alloc", e |-> 1, v |-> DefaultValue]>>
    /\ Len(TheStorage.datas) = 2
    /\ ~StorageHas(TheStorage, 0)
    /\ StorageHas(TheStorage, 1)
    /\ ~StorageHas(TheStorage, 2)

\* C13: after alloc(e) of a slot not allocated, get(e) is the default
\* value (also when a value was written before a free); after a write
\* through get_mut(e), get(e) is the value written; after free(e), has(e) is
\* false.
C13_StorageRoundTrip ==
    \A e \in Entities :
        LET k == LastCall(e)
        IN  k > 0 =>
              /\ (hist[k].op = "alloc" /\ e \notin HeldAfter(hist, k - 1)) =>
                    /\ StorageHas(TheStorage, e)
                    /\ StorageGet(TheStorage, e) = DefaultValue
              /\ hist[k].op = "write" =>
                    /\ StorageHas(TheStorage, e)
                    /\ StorageGet(TheStorage, e) = hist[k].v
              /\ hist[k].op = "free" => ~StorageHas(TheStorage, e)

\* alloc, a write of a value that is not the default, free, alloc again:
\* the slot holds the default value
C13_Witness ==
    \E e \in Entities :
        /\ Len(hist) = 4
        /\ hist[1].op = "alloc" /\ hist[2].op = "write"
        /\ hist[3].op = "free" /\ hist[4].op = "alloc"
        /\ \A k \in 1..4 : hist[k].e = e
        /\ hist[2].v # DefaultValue
        /\ StorageGet(TheStorage, e) = DefaultValue

\* the live identities: issued and not free
Live == (0..(next - 1)) \ free

\* no storage has an allocated slot for an identity that is not live
NoStaleComponent ==
    \A T \in Components, e \in 0..MaxEntities : HasComponent(T, e) => e \in Live

\* the step adds a component to an identity that is not live
AddsToDead ==
    \E T \in Components, e \in Entities \ Live :
        \/ AddComponent(T, e)
        \/ \E f \in Mutators : AddComponentWith(T, e, f)

\* C14: as long as components are added to live entities only, no storage
\* has an allocated slot for a non-live identity; so the entity
\* create_entity returns, fresh or reused, has no component of any type,
\* and a component added to an entity that lacks it starts at the default
\* value.
C14_NoStaleComponent ==
    [][/\ (NoStaleComponent /\ ~AddsToDead) => NoStaleComponent'
       /\ \A value \in Entities :
            (NoStaleComponent /\ CreateEntity(value)) =>
                /\ value \in Live'
                /\ \A T \in Components : ~StorageHas(storages'[T], value)
       /\ \A T \in Components, e \in Entities :
            (AddComponent(T, e) /\ ~HasComponent(T, e)) =>
                /\ StorageHas(storages'[T], e)
                /\ StorageGet(storages'[T], e) = DefaultValue]_vars

\* the highest identity is live again and has no component, though every
\* storage once held one for it (each was grown to its slot), and the
\* entity below it keeps its components
C14_Witness ==
    /\ NoStaleComponent
    /\ ~panicked
    /\ next = 2 /\ free = {}
    /\ \A T \in Components :
        /\ Len(storages[T].datas) = 2
        /\ ~HasComponent(T, 1)
        /\ HasComponent(T, 0)
    /\ StorageGet(storages["Position"], 0) # DefaultValue

\* the step is a get_component, get_component_mut or update_component_with
\* of T for e
Access(T, e) ==
    \/ ReadComponent(T, e)
    \/ \E v \in Values : WriteComponent(T, e, v)
    \/ \E f \in Mutators : UpdateComponentWith(T, e, f)

NoEffect ==
    /\ ~panicked'
    /\ storages' = storages
    /\ next' = next /\ free' = free

\* remove_component::<T>(e) on an entity lacking T (also beyond the
\* storage's length) is a no-op
RemoveAbsentIsNoOp ==
    \A T \in Components, e \in Entities :
        (~StorageHas(storages[T], e) /\ RemoveComponent(T, e)) => NoEffect

\* C16 as stated: remove_component::<T>(e) on an entity lacking T, and
\* delete_entity(e) (with the allocator's free(e)) on an identity that is
\* already free, complete without fault and leave storages and allocator
\* exactly as they were.
C16_RemovalIdempotent ==
    [][/\ RemoveAbsentIsNoOp
       /\ \A e \in Entities : (e \in free /\ DeleteEntity(e)) => NoEffect]_vars

\* C16 amended: as stated, for delete_entity on an identity that is already
\* free and has no component in any storage; the allocator's part of
\* delete_entity (free(e)) is a no-op on every identity already free.
C16_RemovalIdempotentAmended ==
    [][/\ RemoveAbsentIsNoOp
       /\ \A e \in Entities :
            (e \in free /\ DeleteEntity(e)) =>
                /\ ~panicked'
                /\ next' = next /\ free' = free
                /\ (\A T \in Components : ~StorageHas(storages[T], e)) =>
                        storages' = storages]_vars

\* identity 1 is free and has no component, a storage is shorter than its
\* slot, and entity 0 holds a component that a removal must leave alone
C16_Witness ==
    /\ ~panicked
    /\ 1 \in free
    /\ \A T \in Components : ~HasComponent(T, 1)
    /\ Len(storages["Velocity"].datas) = 0
    /\ HasComponent("Position", 0)
    /\ StorageGet(storages["Position"], 0) # DefaultValue

\* the step is a has_component::<U>(e) or, for a component e has, a
\* get_component::<U>(e)
ReadsOf(U, e) ==
    \/ HasComponentCall(U, e)
    \/ /\ StorageHas(storages[U], e)
       /\ (GetComponent(U, e) \/ ReadComponent(U, e))

\* C17: while the caller holds a mutable view of type T for entity e,
\* has_component and get_component of any other type U, for e or for another
\* entity, complete without a borrow fault.
C17_OtherTypeReadable ==
    [][\A w \in views :
        w[3] = "mut" =>
            \A U \in Components \ {w[1]}, e2 \in Entities :
                (~MutBorrowed(U) /\ ReadsOf(U, e2)) => ~panicked']_vars

\* asteroids, Move::run: a RefMut of Position and a Ref of Velocity of the
\* same entity are held together
C17_Witness ==
    /\ ~panicked
    /\ \E e \in Entities :
        views = {<<"Position", e, "mut">>, <<"Velocity", e, "ref">>}

\* C18: while the caller holds a mutable view of entity e1's component of
\* type T, reading T for a different entity e2 (has_component::<T>(e2),
\* get_component::<T>(e2), a query filter that tests T) completes without a
\* fault.
C18_SameTypeOtherEntityReadable ==
    [][\A w \in views :
        w[3] = "mut" =>
            \A e2 \in Entities \ {w[2]} :
                ReadsOf(w[1], e2) => ~panicked']_vars

\* the positions of the filters of q that return false for e
Rejecting(q, e) ==
    {i \in 1..Len(q) : ~FilterPanics(q[i], e) /\ ~FilterValue(q[i], e)}

\* the smallest member of a non-empty set of numbers
Least(S) == CHOOSE i \in S : \A j \in S : i <= j

\* the position of the last filter a check of q for e has to evaluate: the
\* first that returns false, the last one if none does
LastEvaluated(q, e) ==
    LET rej == Rejecting(q, e)
    IN  IF rej = {} THEN Len(q) ELSE Least(rej)

\* no filter that a check of q for e has to evaluate panics
Evaluable(q, e) ==
    \A i \in 1..LastEvaluated(q, e) : ~FilterPanics(q[i], e)

\* C20: Query::check returns true iff every filter returns true for the
\* entity; it evaluates the filters in the order they were added and none
\* after the first that returns false; a query with no filter returns true.
C20_CheckShortCircuits ==
    \A q \in Queries, e \in Entities :
        Evaluable(q, e) =>
            Check(q, e) = [ret |-> Rejecting(q, e) = {},
                           evald |-> [i \in 1..LastEvaluated(q, e) |-> i],
                           fault |-> FALSE]

\* entity 0 lacks Position: the check of 'has Position, then the closure
\* that reads Position' returns false after the first filter, where the
\* closure alone panics; entity 1 passes both filters of 'has Position,
\* Position by value'
C20_Witness ==
    LET hasP == [k |-> "has", T |-> "Position"]
        byP == [k |-> "by", T |-> "Position"]
        glob == [k |-> "global", T |-> "Position"]
    IN  /\ {0, 1} \subseteq Live
        /\ Check(<<hasP, glob>>, 0) = [ret |-> FALSE, evald |-> <<1>>, fault |-> FALSE]
        /\ Check(<<glob>>, 0).fault
        /\ Check(<<hasP, byP>>, 1) = [ret |-> TRUE, evald |-> <<1, 2>>, fault |-> FALSE]
        /\ Check(<<>>, 0).ret

\* the members of a finite set of numbers, in ascending order, each once
RECURSIVE AscendingSeq(_)
AscendingSeq(S) ==
    IF S = {}
    THEN <<>>
    ELSE LET m == CHOOSE i \in S : \A j \in S : i <= j
         IN  <<m>> \o AscendingSeq(S \ {m})

\* C19: iter(query) ends and yields, ascending and each once, exactly the
\* live entities for which check is true, and never a deleted identity;
\* with e1 holding Position only and e2 holding Position and Velocity, the
\* Position query yields e1 and e2, Position-and-Velocity yields e2, and
\* not-Velocity yields e1.
C19_IterYieldsMatching ==
    \A q \in Queries :
        (\A e \in Live : ~Check(q, e).fault) =>
            QueryIter(q) = [items |-> AscendingSeq({e \in Live : Check(q, e).ret}),
                            ended |-> TRUE,
                            fault |-> FALSE]

\* test_entity_manager_02: e1 = 0 holds Position, e2 = 1 holds Position and
\* Velocity; the three queries yield what the claim says
C19_Witness ==
    LET hasP == [k |-> "has", T |-> "Position"]
        hasV == [k |-> "has", T |-> "Velocity"]
        notV == [k |-> "not", T |-> "Velocity"]
    IN  /\ next = 2 /\ free = {}
        /\ HasComponent("Position", 0) /\ ~HasComponent("Velocity", 0)
        /\ HasComponent("Position", 1) /\ HasComponent("Velocity", 1)
        /\ QueryIter(<<hasP>>).items = <<0, 1>>
        /\ QueryIter(<<hasP, hasV>>).items = <<1>>
        /\ QueryIter(<<notV>>).items = <<0>>


(***************************************************************************)
(* Claims about the filters of a query                                     *)
(***************************************************************************)

\* the query made of check_component_by::<T, _>(Predicate) alone
ByQuery(T) == <<[k |-> "by", T |-> T]>>

\* C21: a check_component_by::<T>(p) filter returns false without a fault
\* for an entity that lacks T, and p of the current value of T for an
\* entity that has T.
C21_ByFailsClosed ==
    \A T \in Components, e \in Entities :
        /\ ~Check(ByQuery(T), e).fault
        /\ Check(ByQuery(T), e).ret =
               IF StorageHas(storages[T], e)
               THEN Predicate(StorageGet(storages[T], e))
               ELSE FALSE


\* the handlers called so far for the pushed event p, in the order of the
\* calls
DeliveredTo(p) ==
    LET d == SelectSeq(trace, LAMBDA x : x.t = "deliver" /\ x.id = p)
    IN  [k \in 1..Len(d) |-> d[k].h]

\* the connects of h for ev among the first n submitted actions
ConnectsBefore(h, ev, n) ==
    {c \in 1..n : submitted[c].kind = "connect" /\ submitted[c].h = h
                  /\ submitted[c].ev = ev}

\* no disconnect of h for ev is among the first n submitted actions
NoDisconnectBefore(h, ev, n) ==
    \A c \in 1..n : ~(submitted[c].kind = "disconnect" /\ submitted[c].h = h
                      /\ submitted[c].ev = ev)

\* C22: when an event is delivered, the handlers of its type's subscriber
\* list are called once per occurrence in the list, in the order of the
\* list (the order of connection); a handler connected k times with no
\* disconnect is called k times for the event.
C22_InvokeInListOrder ==
    /\ dpc = "invoke" =>
           DeliveredTo(cur.id) = SubSeq(adapters[cur.ev], 1, cur.idx - 1)
    /\ dpc = "handler" =>
           DeliveredTo(cur.id) = SubSeq(adapters[cur.ev], 1, cur.idx)
    /\ \A p \in 1..Len(submitted) :
        Places("done", p) # {} =>
            \A h \in Handlers :
                NoDisconnectBefore(h, submitted[p].ev, p - 1) =>
                    Cardinality(Deliveries(p, h)) =
                        Cardinality(ConnectsBefore(h, submitted[p].ev, p - 1))

\* h1 was connected twice and h2 once in between for Event1, and the event
\* pushed after was delivered to h1, h2, h1 in that order
C22_Witness ==
    /\ dpc = "invoke"
    /\ cur.ev = "Event1"
    /\ adapters["Event1"] = <<"h1", "h2", "h1">>
    /\ cur.idx = 4
    /\ DeliveredTo(cur.id) = <<"h1", "h2", "h1">>


\* list l without its element at position k
Without(l, k) == [j \in 1..(Len(l) - 1) |-> IF j < k THEN l[j] ELSE l[j + 1]]

\* C23: a processed disconnect(h) for an event type removes the first
\* occurrence of h from the type's subscriber list and keeps the order of
\* the other subscribers; when h is not in the list it changes nothing and
\* does not fault.  An event delivered after a connect of h and a later
\* disconnect of h were processed (h connected once) does not reach h.
C23_DisconnectRemovesFirst ==
    [][/\ ExecDisconnect =>
            LET event == Head(pendings)
                l == adapters[event.ev]
                S == {k \in 1..Len(l) : l[k] = event.h}
            IN  /\ ~panicked'
                /\ \A ev \in EventTypes \ {event.ev} : adapters'[ev] = adapters[ev]
                /\ S = {} => adapters'[event.ev] = l
                /\ S # {} =>
                       \E k \in S :
                           /\ \A j \in S : k <= j
                           /\ adapters'[event.ev] = Without(l, k)
       /\ \A p \in 1..Len(submitted') :
            Places("done", p)' # {} =>
                \A h \in Handlers :
                    (/\ Cardinality(ConnectsBefore(h, submitted[p].ev, p - 1)') = 1
                     /\ \E c \in ConnectsBefore(h, submitted[p].ev, p - 1)' :
                            \E d \in (c + 1)..(p - 1) :
                                /\ submitted'[d].kind = "disconnect"
                                /\ submitted'[d].h = h
                                /\ submitted'[d].ev = submitted'[p].ev)
                    => Deliveries(p, h)' = {}]_vars

\* h1, h2, h1 were connected for Event1 and the disconnect of h1 that was
\* processed last left h2, h1
C23_Witness ==
    /\ Len(submitted) = 4
    /\ submitted[1].h = "h1" /\ submitted[2].h = "h2" /\ submitted[3].h = "h1"
    /\ \A c \in 1..3 : submitted[c].kind = "connect" /\ submitted[c].ev = "Event1"
    /\ submitted[4] = [kind |-> "disconnect", ev |-> "Event1", h |-> "h1",
                       in |-> 0, sys |-> 0]
    /\ trace # <<>>
    /\ trace[Len(trace)] = [t |-> "exec", id |-> 4, h |-> NoHandler]
    /\ adapters["Event1"] = <<"h2", "h1">>


\* no Rc of handler h is left anywhere: with its owner, in a subscriber
\* list or in a queued action
Destroyed(h) ==
    /\ h \notin owned
    /\ \A ev \in EventTypes : \A k \in 1..Len(adapters[ev]) : adapters[ev][k] # h
    /\ \A k \in 1..Len(pendings) : pendings[k].h # h

\* the Connection c cannot reach its dispatcher or its handler: the
\* dispatcher was dropped, the handler was destroyed, or c was made empty
Dead(c) == dpc = "dropped" \/ c[1] = NoHandler \/ Destroyed(c[1])

\* C24: connect() and disconnect() of a Connection whose dispatcher or
\* handler was destroyed, or that was created empty, queue nothing, change
\* no subscriber list and raise no fault.
C24_DeadConnectionIsNoOp ==
    [][\A c \in connections :
        (Dead(c) /\ (\/ ConnectionConnect(c[1], c[2])
                     \/ ConnectionDisconnect(c[1], c[2])))
        => /\ pendings' = pendings
           /\ submitted' = submitted
           /\ adapters' = adapters
           /\ trace' = trace
           /\ ~panicked']_vars

\* a Connection of h1 is left whose handler was destroyed after its
\* dispatcher had delivered an event to it, and an empty Connection
C24_Witness ==
    /\ ~panicked
    /\ dpc = "idle"
    /\ connections = {<<"h1", "Event1">>, <<NoHandler, "Event1">>}
    /\ Destroyed("h1")
    /\ \E k \in 1..Len(trace) : trace[k].t = "deliver" /\ trace[k].h = "h1"

\* C25: a subscription does not keep its handler alive: once the owner of
\* a handler has dropped its reference, the handler is destroyed whether
\* its connect is still queued or was processed, and no event is delivered
\* to it.
C25_SubscriptionIsWeak ==
    [][/\ \A h \in Handlers \ owned' : Destroyed(h)'
       /\ InvokeHandler => adapters[cur.ev][cur.idx] \in owned]_vars


(***************************************************************************)
(* Claims about RefreshPeriod and update()                                 *)
(***************************************************************************)

\* a > b, from PartialOrd::partial_cmp
Gt(a, b) == Cmp(a, b) = "Greater"

\* the RefreshPeriod values the scheduler holds: the states of the systems,
\* the locals of update() and the At(now) it compares with
Held ==
    {refresh[k] : k \in 1..Len(refresh)} \cup {ret, local, At(now), At(time)}

\* how many of the conditions of the tuple hold
Count(conds) == Cardinality({i \in DOMAIN conds : conds[i]})

\* C26: the comparison of RefreshPeriod is a total order with
\* Stop < At(t) < EveryTime for every instant t and At(t1) < At(t2) iff
\* t1 < t2: it is antisymmetric and transitive, exactly one of a < b,
\* a == b, a > b holds, and cmp(a, b) is Equal iff a == b.
C26_TotalOrder ==
    \A a \in Held :
        /\ a.k = "At" =>
               /\ Lt(Stop, a) /\ Lt(a, EveryTime) /\ Lt(Stop, EveryTime)
               /\ \A t \in Instants :
                      /\ Lt(a, At(t)) <=> a.t < t
                      /\ Lt(At(t), a) <=> t < a.t
        /\ \A b \in RefreshPeriods :
               /\ Count(<<Lt(a, b), a = b, Gt(a, b)>>) = 1
               /\ Count(<<Lt(b, a), b = a, Gt(b, a)>>) = 1
               /\ (Cmp(a, b) = "Equal") <=> (a = b)
               /\ Lt(a, b) <=> Gt(b, a)
               /\ ~(Lt(a, b) /\ Lt(b, a))
               /\ \A c \in RefreshPeriods :
                      /\ Lt(a, b) /\ Lt(b, c) => Lt(a, c)
                      /\ Lt(b, a) /\ Lt(c, b) => Lt(c, a)
                      /\ Lt(b, a) /\ Lt(a, c) => Lt(b, c)

\* the scheduler holds two At states of different instants and EveryTime
\* at once, in the run of a system
C26_Witness ==
    /\ refresh = <<At(0), At(MaxTime)>>
    /\ local = EveryTime
    /\ ret = EveryTime
    /\ spc = "running"


\* update() is in a pass over the systems, before and after the step
InPass == spc # "idle" /\ spc' # "idle"

\* C27: a system added with add_system starts in the state EveryTime, and
\* an update() that finds it in that state runs it; update() visits the
\* systems in the order of their registration, runs each at most once in a
\* pass, and passes every run the clock reading it took at its start.
C27_RegistrationOrder ==
    [][/\ Len(systems') # Len(systems) =>
            /\ Len(systems') = Len(systems) + 1
            /\ SubSeq(systems', 1, Len(systems)) = systems
            /\ refresh' = Append(refresh, EveryTime)
       /\ (spc = "visit" /\ sidx <= Len(systems) /\ refresh[sidx] = EveryTime) =>
            VisitRun
       /\ (spc = "idle" /\ spc' # "idle") =>
            sidx' = 1 /\ now' = time /\ spc' = "visit"
       /\ InPass =>
            /\ now' = now
            /\ systems' = systems
            /\ sidx' \in {sidx, sidx + 1}
       /\ (spc = "visit" /\ InPass) =>
            \/ spc' = "running" /\ sidx' = sidx /\ sidx <= Len(systems)
            \/ spc' = "visit" /\ sidx' = sidx + 1
       /\ (spc \in {"running", "drain"} /\ InPass) =>
            \/ spc' \in {"running", "drain"} /\ sidx' = sidx
            \/ spc' = "visit" /\ sidx' = sidx + 1
       /\ (spc # "idle" /\ spc' = "idle") =>
            spc = "visit" /\ sidx = Len(systems) + 1]_vars

\* the second system is in its run after the first, registered in the state
\* EveryTime, ran in the same pass; the clock has advanced since the pass
\* began
C27_Witness ==
    /\ spc = "running"
    /\ sidx = 2
    /\ systems = <<"s2", "s1">>
    /\ refresh = <<EveryTime, EveryTime>>
    /\ time > now
    /\ ret = EveryTime


\* m is a maximum of the set S of RefreshPeriod values
IsMaximum(m, S) == m \in S /\ \A x \in S : ~Lt(m, x)

\* update() returns: the value returned is ret before the step
Returns == spc # "idle" /\ spc' = "idle"

\* C28: update() returns the maximum, under Stop < At(t) < EveryTime, of
\* the refresh states it consulted in the pass, each the state the system
\* had when it was visited, before it ran; with no system it returns Stop.
C28_ReturnsMaxConsulted ==
    [][/\ (spc = "idle" /\ spc' # "idle") => ret' = Stop
       /\ (spc = "visit" /\ InPass) =>
            IsMaximum(ret', {ret, refresh[sidx]})
       /\ (spc # "visit" /\ InPass) => ret' = ret
       /\ (Returns /\ Len(systems) = 0) => ret = Stop
       /\ Returns => sidx = Len(systems) + 1]_vars

\* update() is about to return EveryTime, the state it consulted for both
\* systems, of which the first has returned At(0) and the second Stop
C28_Witness ==
    /\ spc = "visit"
    /\ sidx = 3
    /\ refresh = <<At(0), Stop>>
    /\ ret = EveryTime

\* C29: the value returned by update() is the maximum of the refresh
\* states of the registered systems as stored when update() returns (Stop
\* with no system), the states reported by the systems run in the pass
\* included.
C29_ReturnsMaxStored ==
    [][Returns =>
          IsMaximum(ret, {Stop} \cup {refresh[k] : k \in 1..Len(refresh)})]_vars

\* the earliest instant of the At states of the systems
Earliest == CHOOSE t \in Instants :
                /\ \E k \in 1..Len(refresh) : refresh[k] = At(t)
                /\ \A k \in 1..Len(refresh) : refresh[k].t >= t

\* C30: when every registered system is in an At state, update() returns
\* At(t) for the earliest instant t of these states.
C30_ReturnsNearestWake ==
    [][(/\ Returns
        /\ Len(systems) > 0
        /\ \A k \in 1..Len(refresh) : refresh[k].k = "At")
       => ret = At(Earliest)]_vars


\* C31: set_refresh(name, v) stores v as the refresh state of the system
\* registered under name and leaves the states of the other systems and
\* the list of systems unchanged; for a name that is not registered it
\* changes nothing and does not fault; update() applies the stored state at
\* its next visit of the system: Stop is skipped, EveryTime is run.
C31_SetRefreshFrame ==
    [][/\ \A n \in SystemNames, v \in RefreshPeriods :
            SetRefresh(n, v) =>
                /\ ~panicked'
                /\ systems' = systems /\ names' = names
                /\ Len(refresh') = Len(refresh)
                /\ \A k \in 1..Len(refresh) :
                       refresh'[k] = IF k = names[n] THEN v ELSE refresh[k]
       /\ (spc = "visit" /\ sidx <= Len(systems) /\ refresh[sidx] = Stop) =>
            VisitSkip
       /\ (spc = "visit" /\ sidx <= Len(systems) /\ refresh[sidx] = EveryTime) =>
            VisitRun]_vars

\* a later update() has skipped the first system, which set_refresh
\* stopped (add_system stores EveryTime and no system has run before the
\* clock advanced), and is at the second
C31_Witness ==
    /\ spc = "visit"
    /\ sidx = 2
    /\ refresh = <<Stop, EveryTime>>
    /\ ret = Stop
    /\ now = MaxTime


\* C32: after add_system with a system whose name is already registered
\* the name has a single scheduling slot: update() visits no more systems
\* than before, runs only the system registered last under the name, and
\* set_refresh(name, v) sets the state of that system.
C32_SingleSlotPerName ==
    [][/\ \A obj \in DupObjs :
            (AddSystem(obj) /\ names[Name(obj)] # 0) =>
                Len(systems') = Len(systems)
       /\ VisitRun => names[Name(systems[sidx])] = sidx
       /\ \A n \in SystemNames, v \in RefreshPeriods :
            (SetRefresh(n, v) /\ names[n] # 0) => refresh'[names[n]] = v]_vars


(***************************************************************************)
(* Claims about adding components                                          *)
(***************************************************************************)

\* the value in the slot of T for e right after an allocation: the value
\* e has, or the default value if e lacks T
AfterAlloc(T, e) ==
    IF StorageHas(storages[T], e)
    THEN StorageGet(storages[T], e)
    ELSE DefaultValue

\* C33: add_component_with::<T>(e, f) leaves e with a component T whose
\* value is f of the value in the slot after the allocation: of the default
\* value if e lacked T, of the value e had (not of a default) if e had T.
C33_AddWithAppliesToSlot ==
    [][\A e \in Entities, f \in Mutators :
        AddComponentWith("Position", e, f) =>
            /\ ~panicked'
            /\ StorageHas(storages'["Position"], e)
            /\ StorageGet(storages'["Position"], e) =
                   Apply(f, AfterAlloc("Position", e))
            /\ storages'["Velocity"] = storages["Velocity"]]_vars

\* two entities have Position, one with the largest value and one with the
\* default value (which adding one to the largest value yields)
C33_Witness ==
    /\ ~panicked
    /\ storages["Position"] = [datas |-> <<MaxVal, DefaultValue>>,
                               alloc |-> <<TRUE, TRUE>>]
    /\ storages["Velocity"] = StorageNew

\* the greater of two numbers
Larger(a, b) == IF a > b THEN a ELSE b

\* C34: alloc(e), as add_component::<T>(e) calls it, on an entity that has
\* the component leaves the storage as it is, value included; for an
\* identity beyond the backing length it grows the storage up to e, the new
\* slots other than e holding the default value and not allocated; it
\* changes no slot other than e, and e has the component afterwards.
C34_AllocKeepsValue ==
    [][\A T \in Components, e \in Entities :
        AddComponent(T, e) =>
            LET old == storages[T]
                new == storages'[T]
            IN  /\ ~panicked'
                /\ StorageHas(new, e)
                /\ StorageHas(old, e) => new = old
                /\ Len(new.datas) = Larger(Len(old.datas), e + 1)
                /\ Len(new.alloc) = Len(new.datas)
                /\ \A k \in 1..Len(old.datas) :
                       /\ new.datas[k] = old.datas[k]
                       /\ k # e + 1 => new.alloc[k] = old.alloc[k]
                /\ \A k \in (Len(old.datas) + 1)..Len(new.datas) :
                       /\ new.datas[k] = DefaultValue
                       /\ k # e + 1 => ~new.alloc[k]
                /\ \A U \in Components \ {T} : storages'[U] = storages[U]]_vars

\* the storage of Position grew to the second identity, which has a value
\* that is not the default, and the slot exposed before it is not
\* allocated; Velocity grew the same way
C34_Witness ==
    /\ ~panicked
    /\ storages["Position"] = [datas |-> <<DefaultValue, MaxVal>>,
                               alloc |-> <<FALSE, TRUE>>]
    /\ storages["Velocity"] = [datas |-> <<DefaultValue, DefaultValue>>,
                               alloc |-> <<FALSE, TRUE>>]


(***************************************************************************)
(* Claims about the runs of the systems                                    *)
(***************************************************************************)

\* C35: when update() runs a system and run returns r, the stored refresh
\* state of the system is r when the drain that follows begins, also when
\* set_refresh was called for the system's own name during the run and
\* when r is the state the system had before the run.
C35_ReturnedStateStored ==
    [][\A r \in RefreshPeriods :
        RunReturn(r) => /\ spc' = "drain"
                        /\ refresh'[sidx] = r]_vars

\* C36: update() completes without a borrow fault when the system it has
\* just run is itself a handler subscribed for an event delivered by the
\* drain that follows the run: the exclusive borrow taken for run is
\* released before the handlers are called, and the handler is called.
C36_SystemAsHandler ==
    [][/\ (/\ spc = "drain" /\ dpc = "invoke"
           /\ cur.idx <= Len(adapters[cur.ev])
           /\ adapters[cur.ev][cur.idx] = systems[sidx])
          => InvokeHandler
       /\ spc = "drain" => ~panicked']_vars


(***************************************************************************)
(* Claims about the whole of dispatch() and about the event types          *)
(***************************************************************************)

\* every action submitted so far was run exactly once
AllExecutedOnce ==
    \A id \in 1..Len(submitted) : Cardinality(Places("exec", id)) = 1

\* C37: when the handlers called during a dispatch() queue finitely many
\* further actions, dispatch() returns, every action submitted before or
\* during the call has then been run exactly once, and the pending queue
\* is empty.
C37_DispatchTerminates ==
    (dpc = "loop") ~> (dpc = "idle" /\ pendings = <<>> /\ AllExecutedOnce)

\* a dispatch() has returned after it ran an event that a handler pushed
\* in on_event during the same call
C37_Witness ==
    /\ dpc = "idle"
    /\ pendings = <<>>
    /\ AllExecutedOnce
    /\ \E id \in 1..Len(submitted) :
        /\ submitted[id].in # 0
        /\ Places("done", id) # {}


(***************************************************************************)
(* Claims about the allocator's state                                      *)
(***************************************************************************)

\* C38: in every state reached by alloc() and free(e), free applied only to
\* identities alloc returned before, the free set is a subset of [0, next),
\* next is the number of distinct identities ever issued, and no step
\* decreases next.
C38_AllocatorInvariant ==
    /\ [](/\ free \subseteq 0..(next - 1)
          /\ next = Cardinality(Issued(hist)))
    /\ [][next' >= next]_vars

\* two identities issued, one of them freed and issued again, the other one
\* in the free set
C38_Witness ==
    /\ next = 2
    /\ free # {}
    /\ \E k \in 2..Len(hist) :
        /\ hist[k].op = "alloc"
        /\ \E j \in 1..(k-1) : hist[j].op = "alloc" /\ hist[j].e = hist[k].e

(***************************************************************************)
(* Claims about the order of a query's filters                             *)
(***************************************************************************)

\* the permutations of 1..n
Perms(n) ==
    {p \in [1..n -> 1..n] : \A i, j \in 1..n : p[i] = p[j] => i = j}

\* the query with the filters of q in the order p
Permuted(q, p) == [i \in 1..Len(q) |-> q[p[i]]]

\* a rank of the filters, to take each multiset of filters once
Rank(f) ==
    CASE f.k = "has" /\ f.T = "Position" -> 1
      [] f.k = "has" /\ f.T = "Velocity" -> 2
      [] f.k = "not" -> 3
      [] f.k = "by" -> 4
      [] OTHER -> 5

\* the filters of q are in ascending rank
Ranked(q) == \A i \in 1..(Len(q) - 1) : Rank(q[i]) <= Rank(q[i + 1])

\* the value check returns for each entity, and what iter yields
Outcome(q) ==
    [check |-> [e \in Entities |-> Check(q, e).ret], iter |-> QueryIter(q)]

\* C39: for a query built only from check_component, check_not_component
\* and check_component_by filters, check returns the same value and iter
\* yields the same sequence for every permutation of the filters (every
\* arrangement of the filters gives what their arrangement in ascending
\* rank gives), and evaluating the query changes no storage and no
\* allocator state (a step that changes one of them is not the evaluation
\* of a query).
C39_FilterOrderIrrelevant ==
    /\ [](\A q \in LibraryQueries :
            Ranked(q) =>
                LET o == Outcome(q)
                IN  /\ ~o.iter.fault
                    /\ \A p \in Perms(Len(q)) : Outcome(Permuted(q, p)) = o)
    /\ [][~UNCHANGED <<next, free, storages, views>> =>
            \A q \in LibraryQueries : ~IterQuery(q)]_vars

\* entity 0 holds Position only, entity 1 Position and Velocity: 'Position,
\* not Velocity' and 'not Velocity, Position' both yield entity 0 alone,
\* the first rejecting entity 1 at its second filter and the other at its
\* first
C39_Witness ==
    LET hasP == [k |-> "has", T |-> "Position"]
        notV == [k |-> "not", T |-> "Velocity"]
    IN  /\ next = 2 /\ free = {}
        /\ QueryIter(<<hasP, notV>>).items = <<0>>
        /\ QueryIter(<<notV, hasP>>).items = <<0>>
        /\ Check(<<hasP, notV>>, 1).evald = <<1, 2>>
        /\ Check(<<notV, hasP>>, 1).evald = <<1>>

(***************************************************************************)
(* Claims about the event types of one dispatcher                          *)
(***************************************************************************)

\* the queued closure the next step of the loop runs is a connect or a
\* disconnect for the event type ev
ProcessesSubscription(ev) ==
    /\ dpc = "loop" /\ ~panicked
    /\ pendings # <<>>
    /\ PopEvent(pendings).event.kind \in {"connect", "disconnect"}
    /\ PopEvent(pendings).event.ev = ev
    /\ trace' # trace

\* C40: event types are isolated.  An event of type E is delivered only to
\* handlers that the connects and disconnects for E submitted before it
\* leave subscribed for E, whatever they are subscribed to for other types,
\* and the handlers called are those of E's list; processing a connect or
\* a disconnect for E leaves the subscriber list of every other event type
\* unchanged, also when the handler is subscribed to both types.
C40_EventTypesIsolated ==
    /\ [](/\ \A k \in 1..Len(trace) :
                trace[k].t = "deliver" =>
                    SubCount(trace[k].h, submitted[trace[k].id].ev,
                             trace[k].id - 1) > 0
          /\ dpc = "handler" => adapters[submitted[cur.id].ev][cur.idx] \in borrowed)
    /\ [][\A ev \in EventTypes :
            ProcessesSubscription(ev) =>
                \A other \in EventTypes \ {ev} : adapters'[other] = adapters[other]]_vars

\* test_event_dispatcher_03: h1 was connected for Event1 and for Event2, the
\* disconnect for Event1 was processed and left h1 in the list of Event2,
\* and an Event2 pushed after the disconnect reached h1
C40_Witness ==
    /\ adapters["Event1"] = <<>>
    /\ adapters["Event2"] = <<"h1">>
    /\ \E d \in 1..Len(submitted), p \in 1..Len(submitted) :
        /\ d < p
        /\ submitted[d].kind = "disconnect"
        /\ submitted[d].h = "h1" /\ submitted[d].ev = "Event1"
        /\ ConnectsBefore("h1", "Event1", d - 1) # {}
        /\ submitted[p].kind = "invoke" /\ submitted[p].ev = "Event2"
        /\ Deliveries(p, "h1") # {}
====
